---- MODULE Spec2Model ----
(***************************************************************************)
(* The rules engine of overthrow (overthrow-engine): the typestate machine *)
(* CoupGame<S> over CoupData {players, coins, deck}.  A game value is a    *)
(* record g; every engine method is an operator from game values to game   *)
(* values, and every action of the specification applies one method of the *)
(* phase the game is in.  A failed expect / panic! sets g.panicked and     *)
(* leaves the rest of the game as it was when the method was called.       *)
(***************************************************************************)
EXTENDS Integers, Sequences, FiniteSets, TLC

\* ---------------------------------------------------------------- bounds
\* Largest number of seats a new game is created with (the code allows 2..6).
MaxSeats == 3
\* Number of different shuffles of the starting deck Init draws from.
MaxSeeds == 2
\* Number of actions played from Wait in one behaviour.
MaxTurns == 2
\* Number of those actions that may be Exchange.
MaxExchanges == 1
\* Number of actions played in one behaviour at the quiet table.
MaxQuietTurns == 6
\* Number of actions played in one behaviour with every reaction open.
MaxReactTurns == 3
\* Number of actions played in one behaviour of Tax and Coup.
MaxCoupTurns == 5

\* ------------------------------------------------------ program constants
STARTING_COINS == 50
MAX_PLAYER_COUNT == 6
DECK_SIZE == 15

Card == {"Ambassador", "Assassin", "Captain", "Contessa", "Duke"}

STARTING_DECK ==
    << "Ambassador", "Ambassador", "Ambassador",
       "Assassin", "Assassin", "Assassin",
       "Captain", "Captain", "Captain",
       "Contessa", "Contessa", "Contessa",
       "Duke", "Duke", "Duke" >>

PlayerId == 1..MAX_PLAYER_COUNT

\* enum Withdrawal { Income = 1, ForeignAid = 2, Tax = 3 }
Withdrawal(kind) ==
    CASE kind = "Income" -> 1
      [] kind = "ForeignAid" -> 2
      [] kind = "Tax" -> 3

\* enum Deposit { Assassinate = 3, Coup = 7 }
Deposit(kind) ==
    CASE kind = "Assassinate" -> 3
      [] kind = "Coup" -> 7

VARIABLES
    phase,            \* the typestate S of CoupGame<S>; "End" is terminal
    state,            \* the fields of the state struct of the phase
    alive,            \* Players.alive : PlayerId -> Player {coins, hand}
    dead,             \* Players.dead  : PlayerId -> DeadHand
    order,            \* CurrentPlayer.order : PlayerId -> (prev, next)
    current_player,   \* CurrentPlayer.current_player
    coins,            \* CoinPile.coins, the treasury
    deck,             \* Deck.deck, as a bag Card -> count (it is shuffled
                      \* when built and after every return, so a draw can
                      \* pop any two of its cards)
    possible_actions, \* Wait.possible_actions
    panicked,         \* TRUE once an engine method has aborted
    deck_ops,         \* the Deck methods the last transition called
    seating,          \* the shuffled ids CurrentPlayer::with_players linked
    played,           \* the turn in progress or just over: what
                      \* WaitState::play was given, the reactions taken and
                      \* the phase whose method ended it
    turns,            \* number of actions played so far
    exchanges,        \* number of Exchange actions played so far
    session,          \* the exchanging seat's client session: the
                      \* GameMessage it was handed, the prompt it waits on,
                      \* the response it last read, what it then sent to the
                      \* client and the choose_two channel to the game task
    net,              \* the game task and the seats' sessions around the
                      \* reaction windows: where coup_game stands, the
                      \* GameMessage channels, the prompt each session is
                      \* on, and the channels back to the game task
    conn              \* the connections from the socket to the end of
                      \* the game: dispatcher, client_handler tasks, frames
                      \* in flight

vars == << phase, state, alive, dead, order, current_player, coins, deck,
           possible_actions, panicked, deck_ops, seating, played, turns,
           exchanges, session, net, conn >>

\* ------------------------------------------------------------------ hands
Full(c1, c2) == [kind |-> "Full", c1 |-> c1, c2 |-> c2]
\* Hand::Last(alive card, DeadCard)
Last(c1, d) == [kind |-> "Last", c1 |-> c1, c2 |-> d]

\* no hand shown
NoHand == [kind |-> "None", c1 |-> "None", c2 |-> "None"]

\* Hand::has_card
Hand_has_card(hand, card) ==
    IF hand.kind = "Full" THEN hand.c1 = card \/ hand.c2 = card
    ELSE hand.c1 = card

\* ------------------------------------------------------------------- deck
EmptyBag == [c \in Card |-> 0]
BagOfSeq(s) == [c \in Card |-> Cardinality({i \in DOMAIN s : s[i] = c})]
BagAdd(b, c) == [b EXCEPT ![c] = @ + 1]
BagRemove(b, c) == [b EXCEPT ![c] = @ - 1]
RECURSIVE BagSizeOver(_, _)
BagSizeOver(b, cs) ==
    IF cs = {} THEN 0
    ELSE LET c == CHOOSE x \in cs : TRUE IN b[c] + BagSizeOver(b, cs \ {c})
BagSize(b) == BagSizeOver(b, Card)

\* Vec::shuffle of the starting deck: one permutation per seed.
Shuffled(seed) ==
    [i \in 1..DECK_SIZE |-> STARTING_DECK[(((i - 1) * 7 + 4 * seed) % DECK_SIZE) + 1]]

\* Deck::with_count: the last 2 * player_count cards of the shuffled deck
\* are drained into the hands, two by two, in PlayerId order.
Deck_with_count_hands(seed, player_count) ==
    LET d == Shuffled(seed)
        cards_left == DECK_SIZE - 2 * player_count
    IN [id \in 1..player_count |->
            Full(d[cards_left + 2 * id - 1], d[cards_left + 2 * id])]

Deck_with_count_deck(seed, player_count) ==
    LET d == Shuffled(seed)
        cards_left == DECK_SIZE - 2 * player_count
    IN BagOfSeq(SubSeq(d, 1, cards_left))

\* a treasury that keeps the coins dealt to the seats
CoinPile_with_count_full(player_count) == STARTING_COINS

\* CoinPile::with_count
CoinPile_with_count(player_count) == STARTING_COINS - player_count * 2

\* ------------------------------------------------------------ state structs
NoState ==
    [actor |-> 0, kind |-> "None", victim |-> 0, claim |-> "None",
     challenger |-> 0, blocker |-> 0, choices |-> << >>]

NoPlay == [actor |-> 0, kind |-> "None", victim |-> 0, coins |-> 0, pile |-> 0,
           challenged |-> FALSE, defended |-> FALSE, blocked |-> FALSE,
           ended |-> "None"]

\* Action::new
Action(actor, kind, victim) == [actor |-> actor, kind |-> kind, victim |-> victim]

\* the game value held in the variables
Game ==
    [phase |-> phase, state |-> state, alive |-> alive, dead |-> dead,
     order |-> order, current_player |-> current_player, coins |-> coins,
     deck |-> deck, possible_actions |-> possible_actions,
     panicked |-> panicked, deck_ops |-> deck_ops]

\* a failed expect(), panic!() or out-of-range index: the process aborts
Panic(g) == [g EXCEPT !.panicked = TRUE]

Alive(g) == DOMAIN g.alive

\* ---------------------------------------------------------------- players
\* Players::has_card
has_card(g, actor, card) == Hand_has_card(g.alive[actor].hand, card)

\* the reading of PlayerMap::challenge_winner: the seat that wins
challenge_winner_is_winner(g, actor, challenger, claim) ==
    IF has_card(g, actor, claim) THEN actor ELSE challenger

\* Players::challenge_winner: the seat that is to lose influence
challenge_winner(g, actor, challenger, claim) ==
    IF has_card(g, actor, claim) THEN challenger ELSE actor

\* a Coup that can be paid like an assassination
can_coup_early(player) == player.coins >= 3

\* Player::can_coup, Player::can_assasinate, Player::can_steal_from
can_coup(player) == player.coins >= 7
can_assasinate(player) == player.coins >= 3
can_steal_from(player) == player.coins >= 2

\* Players::all_but: the alive ids other than actor
all_but(g, actor) == Alive(g) \ {actor}

\* Players::potential_steal_victims
potential_steal_victims(g, actor) ==
    {id \in Alive(g) : can_steal_from(g.alive[id]) /\ id # actor}

\* Players::potential_coup_victims
potential_coup_victims(g, actor) ==
    IF can_coup(g.alive[actor]) THEN all_but(g, actor) ELSE {}

\* Players::potential_assasination_victims
potential_assasination_victims(g, actor) ==
    IF can_assasinate(g.alive[actor]) THEN all_but(g, actor) ELSE {}

\* Players::generate_actions_for (PossibleActions::all of the result)
BASIC_ACTS == {"ForeignAid", "Income", "Tax", "Exchange"}

generate_actions_for(g, player_id) ==
    {Action(player_id, "Assassinate", v) : v \in potential_assasination_victims(g, player_id)}
    \cup {Action(player_id, "Coup", v) : v \in potential_coup_victims(g, player_id)}
    \cup {Action(player_id, "Steal", v) : v \in potential_steal_victims(g, player_id)}
    \cup {Action(player_id, act, 0) : act \in BASIC_ACTS}

\* action::Challenge {actor, challenger, kind}; kind is a ChallengeableAct,
\* with its victim (Steal, Assassinate) or its claim (BlockSteal)
Challenge(actor, challenger, kind, victim, claim) ==
    [actor |-> actor, challenger |-> challenger, kind |-> kind,
     victim |-> victim, claim |-> claim]

\* Players::generate_challenges_against
generate_challenges_against(g, actor, kind, victim, claim) ==
    {Challenge(actor, id, kind, victim, claim) : id \in all_but(g, actor)}

\* action::Block {actor, blocker, kind}; kind is a BlockableAct
Block(actor, blocker, kind, victim, claim) ==
    [actor |-> actor, blocker |-> blocker, kind |-> kind,
     victim |-> victim, claim |-> claim]

\* Players::generate_blocks_against
generate_blocks_against(g, actor) ==
    {Block(actor, id, "ForeignAid", 0, "None") : id \in all_but(g, actor)}

\* Players::generate_reactions_against, the blocks
generate_reactions_blocks(actor, kind, victim) ==
    IF kind = "Assassinate"
    THEN {Block(actor, victim, "Assassinate", victim, "None")}
    ELSE {Block(actor, victim, "Steal", victim, "Ambassador"),
          Block(actor, victim, "Steal", victim, "Captain")}

\* Block::claim
Block_claim(block) ==
    CASE block.kind = "ForeignAid" -> "Duke"
      [] block.kind = "Steal" ->
            IF block.claim = "Ambassador" THEN "Ambassador" ELSE "Captain"
      [] block.kind = "Assassinate" -> "Assassin"

\* impl From<&ChallengeableAct> for Card
ClaimOf(kind, claim) ==
    CASE kind = "Assassinate" -> "Assassin"
      [] kind = "Exchange" -> "Ambassador"
      [] kind = "Tax" -> "Duke"
      [] kind = "Steal" -> "Captain"
      [] kind = "BlockAssassination" -> "Contessa"
      [] kind = "BlockForeignAid" -> "Duke"
      [] kind = "BlockSteal" -> claim

\* a game that is over as soon as two seats are left
is_game_over_at_two(g) == Cardinality(Alive(g)) <= 2

\* Players::is_game_over
is_game_over(g) == Cardinality(Alive(g)) = 1

\* ---------------------------------------------------------- current player
\* CurrentPlayer::with_players: ids[i] is linked to ids[i-1] and ids[i+1]
CurrentPlayer_with_players(ids) ==
    LET n == Len(ids) IN
    [id \in {ids[i] : i \in 1..n} |->
        LET i == CHOOSE k \in 1..n : ids[k] = id IN
        [prev |-> ids[IF i = 1 THEN n ELSE i - 1],
         next |-> ids[(i % n) + 1]]]

\* CurrentPlayer::end_turn
CurrentPlayer_end_turn(g) ==
    IF DOMAIN g.order = {} THEN g
    ELSE IF g.current_player \notin DOMAIN g.order THEN Panic(g)
    ELSE [g EXCEPT !.current_player = g.order[g.current_player].next]

Remove(f, id) == [x \in DOMAIN f \ {id} |-> f[x]]

\* a kill that leaves the cursor where it was
CurrentPlayer_kill_keeps_cursor(g, id) ==
    IF DOMAIN g.order = {} THEN g
    ELSE IF id \notin DOMAIN g.order THEN Panic(g)
    ELSE
        LET prev == g.order[id].prev
            next == g.order[id].next
            o1 == Remove(g.order, id)
            o2 == IF prev \in DOMAIN o1
                  THEN [o1 EXCEPT ![prev] = [prev |-> o1[prev].prev, next |-> next]]
                  ELSE o1
            o3 == IF next \in DOMAIN o2
                  THEN [o2 EXCEPT ![next] = [prev |-> prev, next |-> o2[next].next]]
                  ELSE o2
        IN [g EXCEPT !.order = o3]

\* a kill that removes the seat and leaves its neighbours' links alone
CurrentPlayer_kill_keeps_links(g, id) ==
    IF DOMAIN g.order = {} THEN g
    ELSE IF id \notin DOMAIN g.order THEN Panic(g)
    ELSE [g EXCEPT !.current_player = IF @ = id THEN g.order[id].next ELSE @,
                   !.order = Remove(g.order, id)]

\* CurrentPlayer::kill
CurrentPlayer_kill(g, id) ==
    IF DOMAIN g.order = {} THEN g
    ELSE IF id \notin DOMAIN g.order THEN Panic(g)
    ELSE
        LET prev == g.order[id].prev
            next == g.order[id].next
            cur == IF g.current_player = id THEN next ELSE g.current_player
            o1 == Remove(g.order, id)
            o2 == IF prev \in DOMAIN o1
                  THEN [o1 EXCEPT ![prev] = [prev |-> o1[prev].prev, next |-> next]]
                  ELSE o1
            o3 == IF next \in DOMAIN o2
                  THEN [o2 EXCEPT ![next] = [prev |-> prev, next |-> o2[next].next]]
                  ELSE o2
        IN [g EXCEPT !.current_player = cur, !.order = o3]

\* Players::kill: the seat leaves alive, its hand is revealed in dead, the
\* ring drops it.  The coins it held are handed to CoupGame::kill.
Players_kill(g, id) ==
    IF id \notin Alive(g) THEN Panic(g)
    ELSE IF g.alive[id].hand.kind # "Last" THEN Panic(g)
    ELSE IF id \in DOMAIN g.dead THEN Panic(g)
    ELSE
        LET hand == g.alive[id].hand
            g1 == [g EXCEPT !.alive = Remove(g.alive, id),
                            !.dead = [x \in DOMAIN g.dead \cup {id} |->
                                        IF x = id THEN << hand.c1, hand.c2 >>
                                        ELSE g.dead[x]]]
        IN CurrentPlayer_kill(g1, id)

\* ------------------------------------------------------------------ coins
\* CoinPile::withdraw: Err when the treasury holds less than the amount
CoinPile_withdraw_ok(g, amount) == g.coins >= amount

\* CoinPile::spend: Err when the player holds less than the amount
CoinPile_spend_ok(g, amount, actor) == g.alive[actor].coins >= amount

\* the coins of an eliminated seat are dropped
CoinPile_return_coins_dropped(g, player_coins) == g

\* CoinPile::return_coins
CoinPile_return_coins(g, player_coins) == [g EXCEPT !.coins = @ + player_coins]

\* PlayerCoins::steal, applied to the victim's and the thief's coins
PlayerCoins_steal(g, victim, thief) ==
    IF g.alive[victim].coins < 2 THEN Panic(g)
    ELSE [g EXCEPT !.alive[victim].coins = @ - 2, !.alive[thief].coins = @ + 2]

\* --------------------------------------------------- CoupGame<S>, any state
\* CoupGame::end_turn
end_turn(g) ==
    LET g1 == CurrentPlayer_end_turn(g) IN
    IF g1.panicked THEN g1
    ELSE IF g1.current_player \notin Alive(g1) THEN Panic(g1)
    ELSE [g1 EXCEPT !.phase = "Wait", !.state = NoState,
                    !.possible_actions = generate_actions_for(g1, g1.current_player)]

\* CoupGame::kill
kill(g, victim) ==
    LET g1 == Players_kill(g, victim) IN
    IF g1.panicked THEN g1
    ELSE LET g2 == CoinPile_return_coins(g1, g.alive[victim].coins) IN
         IF is_game_over(g2)
         THEN [g2 EXCEPT !.phase = "End", !.state = NoState, !.possible_actions = {}]
         ELSE end_turn(g2)

\* CoupGame::lose_influence
lose_influence(g, victim) ==
    IF victim \notin Alive(g) THEN Panic(g)
    ELSE LET hand == g.alive[victim].hand IN
         IF hand.kind = "Full"
         THEN [g EXCEPT !.phase = "ChooseVictimCard",
                        !.state = [NoState EXCEPT !.victim = victim,
                                                  !.choices = << hand.c1, hand.c2 >>],
                        !.possible_actions = {}]
         ELSE kill(g, victim)

\* CoupGame::withdraw
withdraw(g, kind, actor) ==
    IF actor \notin Alive(g) THEN Panic(g)
    ELSE IF ~CoinPile_withdraw_ok(g, Withdrawal(kind)) THEN Panic(g)
    ELSE end_turn([g EXCEPT !.coins = @ - Withdrawal(kind),
                            !.alive[actor].coins = @ + Withdrawal(kind)])

\* CoupGame::spend
spend(g, kind, actor) ==
    IF actor \notin Alive(g) THEN Panic(g)
    ELSE IF ~CoinPile_spend_ok(g, Deposit(kind), actor) THEN Panic(g)
    ELSE [g EXCEPT !.coins = @ + Deposit(kind),
                   !.alive[actor].coins = @ - Deposit(kind)]

\* CoupGame::transition_with_state
transition_with_state(g, ph, st) ==
    [g EXCEPT !.phase = ph, !.state = st, !.possible_actions = {}]

\* CoupGame::transition_to_block
BlockChallengeKind(kind) ==
    CASE kind = "ForeignAid" -> "BlockForeignAid"
      [] kind = "Assassinate" -> "BlockAssassination"
      [] kind = "Steal" -> "BlockSteal"

transition_to_block(g, block) ==
    transition_with_state(g, "Block",
        [NoState EXCEPT !.actor = block.actor, !.blocker = block.blocker,
                        !.kind = block.kind, !.victim = block.victim,
                        !.claim = block.claim])

\* the challenge() of OnlyChallengeable, Reactable and Block: the three
\* bodies are the same
to_challenge(g, challenge) ==
    transition_with_state(g, "Challenge",
        [NoState EXCEPT !.actor = challenge.actor,
                        !.challenger = challenge.challenger,
                        !.kind = challenge.kind, !.victim = challenge.victim,
                        !.claim = challenge.claim])

\* ------------------------------------------------------------------- Wait
\* WaitState::play
Wait_play(g, action) ==
    CASE action.kind \in {"Assassinate", "Steal"} ->
            transition_with_state(g, "Reactable",
                [NoState EXCEPT !.actor = action.actor, !.kind = action.kind,
                                !.victim = action.victim])
      [] action.kind \in {"Income", "Coup"} ->
            transition_with_state(g, "Safe",
                [NoState EXCEPT !.actor = action.actor, !.kind = action.kind,
                                !.victim = action.victim])
      [] action.kind \in {"Exchange", "Tax"} ->
            transition_with_state(g, "OnlyChallengeable",
                [NoState EXCEPT !.actor = action.actor, !.kind = action.kind])
      [] action.kind = "ForeignAid" ->
            transition_with_state(g, "OnlyBlockable",
                [NoState EXCEPT !.actor = action.actor, !.kind = action.kind])

\* the possible_challenges / possible_blocks / possible_reactions the state
\* was given when it was entered (the players have not changed since)
possible_challenges(g) ==
    IF g.phase = "Block"
    THEN generate_challenges_against(g, g.state.blocker,
                                     BlockChallengeKind(g.state.kind), 0, g.state.claim)
    ELSE generate_challenges_against(g, g.state.actor, g.state.kind,
                                     g.state.victim, "None")

possible_blocks(g) ==
    IF g.phase = "OnlyBlockable" THEN generate_blocks_against(g, g.state.actor)
    ELSE generate_reactions_blocks(g.state.actor, g.state.kind, g.state.victim)

\* PossibleReactions::all of the Reactable state: the reactions offered to
\* each seat.  The map takes one entry per seat: the block inserted for a
\* blocker replaces the one inserted before it for the same blocker, and
\* the seat's challenge is pushed onto the entry
PossibleReactions_all(g) ==
    LET actor == g.state.actor
        victim == g.state.victim
        last_block ==
            IF g.state.kind = "Assassinate"
            THEN Block(actor, victim, "Assassinate", victim, "None")
            ELSE Block(actor, victim, "Steal", victim, "Captain")
        challenges == generate_challenges_against(g, actor, g.state.kind, victim, "None")
    IN [id \in {victim} \cup {c.challenger : c \in challenges} |->
           (IF id = victim THEN {[kind |-> "Block", react |-> last_block]} ELSE {})
           \cup {[kind |-> "Challenge", react |-> c] :
                    c \in {x \in challenges : x.challenger = id}}]

\* the response_handler of ClientHandle::handle_reactions: what it sends to
\* the coordinator, "Invalid" for Err(InvalidResponse)
handle_reactions(reactions, msg) ==
    IF msg.kind = "Pass" THEN [channel |-> "pass", value |-> "Pass"]
    ELSE IF msg.kind = "React" /\ msg.react \in reactions
    THEN IF msg.react.kind = "Block"
         THEN [channel |-> "block", value |-> msg.react.react]
         ELSE [channel |-> "challenge", value |-> msg.react.react]
    ELSE [channel |-> "Invalid", value |-> "None"]

\* ------------------------------------------------------------------- Safe
\* SafeState::outcome
Safe_outcome(g) ==
    IF g.state.kind = "Income"
    THEN [kind |-> "GainCoins", actor |-> g.state.actor, amount |-> 1]
    ELSE [kind |-> "LosesInfluence", victim |-> g.state.victim]

\* a Coup that costs what an assassination costs
Safe_advance_cheap(g) ==
    IF g.state.kind = "Income" THEN withdraw(g, "Income", g.state.actor)
    ELSE LET g1 == spend(g, "Assassinate", g.state.actor) IN
         IF g1.panicked THEN g1 ELSE lose_influence(g1, g.state.victim)

\* SafeState::advance
Safe_advance(g) ==
    IF g.state.kind = "Income" THEN withdraw(g, "Income", g.state.actor)
    ELSE LET g1 == spend(g, "Coup", g.state.actor) IN
         IF g1.panicked THEN g1 ELSE lose_influence(g1, g.state.victim)

\* -------------------------------------------------------------- Reactable
\* ReactableState::outcome
Reactable_outcome(g) ==
    IF g.state.kind = "Steal"
    THEN [kind |-> "LoseCoins", actor |-> g.state.victim, amount |-> 2]
    ELSE [kind |-> "LosesInfluence", victim |-> g.state.victim]

\* ReactableState::advance
Reactable_advance(g) ==
    IF g.state.kind = "Assassinate"
    THEN LET g1 == spend(g, "Assassinate", g.state.actor) IN
         IF g1.panicked THEN g1 ELSE lose_influence(g1, g.state.victim)
    ELSE IF g.state.victim \notin Alive(g) \/ g.state.actor \notin Alive(g)
         THEN Panic(g)
         ELSE LET g1 == PlayerCoins_steal(g, g.state.victim, g.state.actor) IN
              IF g1.panicked THEN g1 ELSE end_turn(g1)

\* ------------------------------------------------------ OnlyChallengeable
\* Deck::draw_two can pop c1 and then c2
CanDraw(g, c1, c2) == g.deck[c1] >= 1 /\ BagRemove(g.deck, c1)[c2] >= 1

\* OnlyChallengeableState::advance; c1, c2 are the cards draw_two pops
OnlyChallengeable_advance(g, c1, c2) ==
    IF g.state.kind = "Exchange"
    THEN IF g.state.actor \notin Alive(g) THEN Panic(g)
         ELSE IF BagSize(g.deck) < 2 THEN Panic(g)
         ELSE LET hand == g.alive[g.state.actor].hand
                  g1 == [g EXCEPT !.deck = BagRemove(BagRemove(g.deck, c1), c2),
                                  !.deck_ops = Append(@, "draw_two")]
              IN IF hand.kind = "Full"
                 THEN transition_with_state(g1, "ChooseTwoFromFour",
                        [NoState EXCEPT !.actor = g.state.actor,
                                        !.choices = << c1, c2, hand.c1, hand.c2 >>])
                 ELSE transition_with_state(g1, "ChooseOneFromThree",
                        [NoState EXCEPT !.actor = g.state.actor,
                                        !.choices = << c1, c2, hand.c1 >>])
    ELSE withdraw(g, "Tax", g.state.actor)

\* ---------------------------------------------------------- OnlyBlockable
\* an unblocked ForeignAid that ends the game
OnlyBlockable_advance_ends(g) ==
    [g EXCEPT !.phase = "End", !.state = NoState, !.possible_actions = {}]

\* OnlyBlockableState::advance
OnlyBlockable_advance(g) == withdraw(g, "ForeignAid", g.state.actor)

\* ------------------------------------------------------- ChooseVictimCard
\* a choice that ends the turn and reveals nothing
ChooseVictimCard_advance_keeps_both(g, choice) == end_turn(g)

\* ChooseVictimCardState::advance
ChooseVictimCard_advance(g, choice) ==
    IF g.state.victim \notin Alive(g) THEN Panic(g)
    ELSE LET hand == g.alive[g.state.victim].hand IN
         IF hand.kind # "Full" THEN Panic(g)
         ELSE IF hand.c1 # choice /\ hand.c2 # choice THEN Panic(g)
         ELSE LET remaining_card == IF hand.c1 = choice THEN hand.c2 ELSE hand.c1 IN
              end_turn([g EXCEPT !.alive[g.state.victim].hand =
                                    Last(remaining_card, choice)])

\* the cards handed back are not put into the deck
Deck_return_cards_lost(g, cards) ==
    [g EXCEPT !.deck_ops = Append(@, "return_cards")]

\* Deck::return_cards: extend, then shuffle
Deck_return_cards(g, cards) ==
    [g EXCEPT !.deck = [c \in Card |->
                          @[c] + Cardinality({i \in DOMAIN cards : cards[i] = c})],
              !.deck_ops = Append(@, "return_cards")]

\* the elements of seq at the indices outside skip, in order
RECURSIVE AllBut(_, _, _)
AllBut(seq, skip, i) ==
    IF i > Len(seq) THEN << >>
    ELSE IF i \in skip THEN AllBut(seq, skip, i + 1)
    ELSE << seq[i] >> \o AllBut(seq, skip, i + 1)

\* ----------------------------------------------------- ChooseOneFromThree
\* ChooseOneFromThreeState::advance
ChooseOneFromThree_advance(g, choice) ==
    LET choices == g.state.choices
        found == {i \in DOMAIN choices : choices[i] = choice}
    IN
    IF found = {} THEN Panic(g)
    ELSE IF g.state.actor \notin Alive(g) THEN Panic(g)
    ELSE IF g.alive[g.state.actor].hand.kind # "Last" THEN Panic(g)
    ELSE
        LET index == CHOOSE i \in found : \A j \in found : i <= j
            dead_card == g.alive[g.state.actor].hand.c2
            g1 == [g EXCEPT !.alive[g.state.actor].hand = Last(choice, dead_card)]
            other_cards == AllBut(choices, {index}, 1)
        IN IF Len(other_cards) # 2 THEN Panic(g)
           ELSE end_turn(Deck_return_cards(g1, other_cards))

\* ------------------------------------------------------ ChooseTwoFromFour
\* one step of the fold over choices.into_iter().enumerate(); 0 is None and
\* the indices are counted from 1
FoldIndices(acc, index, card, c1, c2) ==
    LET c1_index == IF c1 = card /\ acc[1] = 0 THEN index ELSE 0
        c2_index == IF c2 = card THEN index ELSE 0
        c1_xor_c2 == IF (c1_index # 0) # (c2_index # 0)
                     THEN (IF c1_index # 0 THEN c1_index ELSE c2_index)
                     ELSE 0
        and_c2 == IF c1_xor_c2 # 0 THEN c2_index ELSE 0
    IN << IF acc[1] # 0 THEN acc[1] ELSE c1_index,
          IF acc[2] # 0 THEN acc[2] ELSE and_c2 >>

RECURSIVE ChosenIndices(_, _, _, _, _)
ChosenIndices(choices, c1, c2, i, acc) ==
    IF i > Len(choices) THEN acc
    ELSE ChosenIndices(choices, c1, c2, i + 1,
                       FoldIndices(acc, i, choices[i], c1, c2))

\* an advance that puts the two drawn cards back and leaves the hand alone
ChooseTwoFromFour_advance_keeps_hand(g, c1, c2) ==
    end_turn(Deck_return_cards(g, << g.state.choices[1], g.state.choices[2] >>))

\* ChooseTwoFromFourState::advance
ChooseTwoFromFour_advance(g, c1, c2) ==
    LET choices == g.state.choices
        indices == ChosenIndices(choices, c1, c2, 1, << 0, 0 >>)
    IN
    IF indices[1] = 0 \/ indices[2] = 0 THEN Panic(g)
    ELSE IF g.state.actor \notin Alive(g) THEN Panic(g)
    ELSE
        LET g1 == [g EXCEPT !.alive[g.state.actor].hand = Full(c1, c2)]
            remaining_cards == AllBut(choices, {indices[1], indices[2]}, 1)
        IN IF Len(remaining_cards) # 2 THEN Panic(g)
           ELSE end_turn(Deck_return_cards(g1, remaining_cards))

\* -------------------------------------------------------------- Challenge
\* ChallengeState::outcome
Challenge_outcome(g) ==
    [kind |-> "LosesInfluence",
     victim |-> challenge_winner(g, g.state.actor, g.state.challenger,
                                 ClaimOf(g.state.kind, g.state.claim))]

\* ChallengeState::advance
Challenge_advance(g) ==
    IF g.state.actor \notin Alive(g) THEN Panic(g)
    ELSE lose_influence(g, challenge_winner(g, g.state.actor, g.state.challenger,
                                            ClaimOf(g.state.kind, g.state.claim)))

\* ------------------------------------------------------------------ Block
\* BlockState::outcome
Block_outcome(g) ==
    IF g.state.kind = "Assassinate"
    THEN [kind |-> "LoseCoins", actor |-> g.state.actor, amount |-> 3]
    ELSE [kind |-> "LoseTurn", victim |-> g.state.actor]

\* a blocked assassination that costs the actor nothing
Block_advance_free(g) == end_turn(g)

\* BlockState::advance
Block_advance(g) ==
    IF g.state.kind = "Assassinate"
    THEN LET g1 == spend(g, "Assassinate", g.state.actor) IN
         IF g1.panicked THEN g1 ELSE end_turn(g1)
    ELSE end_turn(g)

\* -------------------------------------------------------------------- End
\* EndState::summary: the winner, or 0 when the assert_eq fails
summary(g) ==
    IF Cardinality(Alive(g)) # 1 THEN 0 ELSE CHOOSE id \in Alive(g) : TRUE

\* ------------------------------------------------------------------- views
\* get_player_views_for with every seat shown as the recipient's own
get_player_views_for_open(g, player_id) ==
    [id \in DOMAIN g.alive \cup DOMAIN g.dead |->
        IF id \in DOMAIN g.alive
        THEN [view |-> "Me", name |-> "", coins |-> g.alive[id].coins,
              hand |-> g.alive[id].hand, revealed_cards |-> << >>]
        ELSE [view |-> "Other", name |-> "", coins |-> 0, hand |-> NoHand,
              revealed_cards |-> g.dead[id]]]

\* get_player_views_for: the PlayerView of every seat for seat player_id
get_player_views_for(g, player_id) ==
    [id \in DOMAIN g.alive \cup DOMAIN g.dead |->
        IF id \in DOMAIN g.alive
        THEN LET player == g.alive[id]
                 revealed_cards == IF player.hand.kind = "Full" THEN << >>
                                   ELSE << player.hand.c2 >>
             IN IF player_id = id
                THEN [view |-> "Me", name |-> "", coins |-> player.coins,
                      hand |-> player.hand, revealed_cards |-> << >>]
                ELSE [view |-> "Other", name |-> "", coins |-> player.coins,
                      hand |-> NoHand, revealed_cards |-> revealed_cards]
        ELSE [view |-> "Other", name |-> "", coins |-> 0, hand |-> NoHand,
              revealed_cards |-> g.dead[id]]]

\* the Info coup_game sends to seat id when a round starts
Info_for(g, id) ==
    [player_views |-> get_player_views_for(g, id),
     current_player |-> g.current_player,
     coins_remaining |-> g.coins]

\* ------------------------------------------------------------------- Init
\* ids.shuffle in CurrentPlayer::with_players: the random generator that
\* shuffled the deck also shuffles the ids; the seating of a seed is a
\* rotation of the seats, clockwise for an odd seed and reversed for an
\* even one
ShuffledIds(seed, n) ==
    [i \in 1..n |-> ((seed + (IF seed % 2 = 1 THEN 1 ELSE n - 1) * (i - 1)) % n) + 1]

\* RawPlayers::with_names on a list of player_count names
RawPlayers_with_names(player_count) ==
    IF player_count > 6
    THEN [ok |-> FALSE, error |-> "TooFewPlayers"]
    ELSE IF player_count < 2
    THEN [ok |-> FALSE, error |-> "TooManyPlayers"]
    ELSE [ok |-> TRUE, error |-> "None"]

\* WaitState::with_count / with_players
NewGame(n, seed, ids) ==
    LET hands == Deck_with_count_hands(seed, n)
        g == [phase |-> "Wait", state |-> NoState,
              alive |-> [id \in 1..n |-> [coins |-> 2, hand |-> hands[id]]],
              dead |-> << >>,
              order |-> CurrentPlayer_with_players(ids),
              current_player |-> ids[1],
              coins |-> CoinPile_with_count(n),
              deck |-> Deck_with_count_deck(seed, n),
              possible_actions |-> {},
              panicked |-> FALSE,
              deck_ops |-> << >>]
    IN [g EXCEPT !.possible_actions = generate_actions_for(g, g.current_player)]

\* a session that was handed nothing yet; << >> is an empty channel
NoSession ==
    [game_message |-> << >>, prompt |-> << >>, response |-> << >>,
     to_client |-> "None", choose_two |-> << >>]

NoAction == Action(0, "None", 0)
NoReaction == [kind |-> "None", react |-> Challenge(0, 0, "None", 0, "None")]

\* a frame of the client: a ClientResponse, or one that does not deserialize
Frame(kind, action, react, card) ==
    [kind |-> kind, action |-> action, react |-> react, card |-> card]

\* no frame refused on the prompt the session is on
NoRead == [frame |-> Frame("None", NoAction, NoReaction, "None"),
           answer |-> "None"]

\* no GameMessage, prompt or response
NoMessage == [kind |-> "None", w |-> 0, offered |-> {}]

\* generate_channels: the channels of n seats, all empty, and coup_game
\* about to enter its loop; << >> is an empty channel of capacity 1
NoNet(n) ==
    [pc |-> "Loop", window |-> 0, got_pass |-> {}, nonpass |-> 0, applied |-> 0,
     taken |-> [kind |-> "None", w |-> 0, at |-> 0, seat |-> 0, fits |-> TRUE],
     inbox |-> [id \in 1..n |-> << >>],
     prompt |-> [id \in 1..n |-> NoMessage],
     read |-> [id \in 1..n |-> NoRead],
     to_send |-> << >>,
     to_client |-> [id \in 1..n |-> "None"],
     action |-> [id \in 1..n |-> << >>],
     challenge |-> [id \in 1..n |-> << >>],
     block |-> [id \in 1..n |-> << >>],
     victim_card |-> [id \in 1..n |-> << >>],
     choose_one |-> [id \in 1..n |-> << >>],
     choose_two |-> [id \in 1..n |-> << >>],
     pass |-> [id \in 1..n |-> << >>]]

\* the sockets that go through a whole session, and the sockets that
\* register with the dispatcher
MaxClients == 2
Clients == 1..MaxClients
MaxSockets == 4
Sockets == 1..MaxSockets

\* a lobby takes seats while it has fewer than this many
LOBBY_SEATS == 6
\* a lobby starts when it holds this many
START_SEATS == 2
\* broadcast::channel(2)
BROADCAST_SLOTS == 2

\* no frame read by a session yet
NoFrame == [kind |-> "None", early |-> FALSE, answer |-> "None", forwarded |-> FALSE]

\* nobody has connected: the dispatcher has no lobby and no game task runs
NoConn ==
    [stage |-> [c \in Sockets |-> "None"],
     register |-> << >>,
     disconnected |-> << >>,
     dispatcher |-> "Running",
     lobbies |-> << >>,
     finished_games |-> << >>,
     uuids |-> 0,
     game_id |-> [c \in Sockets |-> 0],
     dispatch |-> [c \in Sockets |-> "Empty"],
     id |-> [c \in Sockets |-> 0],
     out |-> [c \in Sockets |-> << >>],
     wire |-> [c \in Sockets |-> << >>],
     sent |-> 0,
     closed |-> [c \in Sockets |-> "Open"],
     frame |-> [c \in Sockets |-> NoFrame],
     info |-> [c \in Sockets |-> << >>],
     rx |-> [c \in Sockets |-> << >>],
     prompt |-> [c \in Sockets |-> "None"],
     deaf |-> [c \in Sockets |-> FALSE],
     response |-> [c \in Sockets |-> << >>],
     broadcast |-> [c \in Sockets |-> << >>],
     lost |-> [c \in Sockets |-> 0],
     playing |-> 0, players |-> << >>,
     game |-> "None", to_info |-> << >>, asked |-> 0, rounds |-> 0,
     reported |-> {}]

Init ==
    \E n \in 2..MaxSeats, seed \in 1..MaxSeeds :
        LET ids == ShuffledIds(seed, n)
            g == NewGame(n, seed, ids)
        IN
        /\ phase = g.phase
        /\ state = g.state
        /\ alive = g.alive
        /\ dead = g.dead
        /\ order = g.order
        /\ current_player = g.current_player
        /\ coins = g.coins
        /\ deck = g.deck
        /\ possible_actions = g.possible_actions
        /\ panicked = g.panicked
        /\ deck_ops = g.deck_ops
        /\ seating = ids
        /\ played = NoPlay
        /\ turns = 0
        /\ exchanges = 0
        /\ session = NoSession
        /\ net = NoNet(n)
        /\ conn = NoConn

\* ---------------------------------------------------------------- actions
\* the game every transition starts from: no Deck method called yet
Start == [Game EXCEPT !.deck_ops = << >>]

\* the variables take the game value g; an aborted method leaves the game
\* as it was.  When the turn is over the record of the action played notes
\* the phase that ended it and drops the coins counted when it was played.
Commit(g, p) ==
    IF g.panicked
    THEN /\ panicked' = TRUE
         /\ UNCHANGED << phase, state, alive, dead, order, current_player, coins,
                         deck, possible_actions, deck_ops, played >>
    ELSE /\ phase' = g.phase
         /\ state' = g.state
         /\ alive' = g.alive
         /\ dead' = g.dead
         /\ order' = g.order
         /\ current_player' = g.current_player
         /\ coins' = g.coins
         /\ deck' = g.deck
         /\ possible_actions' = g.possible_actions
         /\ panicked' = FALSE
         /\ deck_ops' = g.deck_ops
         /\ played' = IF g.phase \in {"Wait", "End"}
                      THEN [p EXCEPT !.ended = phase, !.coins = 0, !.pile = 0]
                      ELSE p

In(ph) == phase = ph /\ ~panicked

\* WaitState::play on an offered action
Play(action) ==
    /\ Commit(Wait_play(Start, action),
              [actor |-> action.actor, kind |-> action.kind,
               victim |-> action.victim, coins |-> alive[action.actor].coins,
               pile |-> coins, challenged |-> FALSE, defended |-> FALSE,
               blocked |-> FALSE, ended |-> "None"])
    /\ turns' = turns + 1
    /\ exchanges' = IF action.kind = "Exchange" THEN exchanges + 1 ELSE exchanges
    /\ UNCHANGED << seating, session, net, conn >>

WaitPlay ==
    /\ In("Wait")
    /\ turns < MaxTurns
    /\ \E action \in possible_actions :
         /\ action.kind = "Exchange" => exchanges < MaxExchanges
         /\ Play(action)

\* a table where nobody exchanges and, below, nobody reacts
QuietPlay ==
    /\ In("Wait")
    /\ turns < MaxQuietTurns
    /\ \E action \in possible_actions :
         /\ action.kind # "Exchange"
         /\ Play(action)

\* a table where every actor takes Tax
TaxPlay ==
    /\ In("Wait")
    /\ \E action \in possible_actions :
         /\ action.kind = "Tax"
         /\ Play(action)

SafeAdvance ==
    /\ In("Safe")
    /\ Commit(Safe_advance(Start), played)
    /\ UNCHANGED << seating, turns, exchanges, session, net, conn >>

OnlyChallengeableChallenge ==
    /\ In("OnlyChallengeable")
    /\ \E challenge \in possible_challenges(Game) :
         Commit(to_challenge(Start, challenge), [played EXCEPT !.challenged = TRUE])
    /\ UNCHANGED << seating, turns, exchanges, session, net, conn >>

OnlyChallengeableAdvance ==
    /\ In("OnlyChallengeable")
    /\ \E c1, c2 \in Card :
         \* Tax draws nothing: pin the unused inputs to one value
         /\ IF state.kind = "Exchange" THEN CanDraw(Game, c1, c2)
                                       ELSE c1 = "Duke" /\ c2 = "Duke"
         /\ Commit(OnlyChallengeable_advance(Start, c1, c2), played)
    /\ UNCHANGED << seating, turns, exchanges, session, net, conn >>

OnlyBlockableBlock ==
    /\ In("OnlyBlockable")
    /\ \E block \in possible_blocks(Game) :
         Commit(transition_to_block(Start, block), [played EXCEPT !.blocked = TRUE])
    /\ UNCHANGED << seating, turns, exchanges, session, net, conn >>

OnlyBlockableAdvance ==
    /\ In("OnlyBlockable")
    /\ Commit(OnlyBlockable_advance(Start), played)
    /\ UNCHANGED << seating, turns, exchanges, session, net, conn >>

ReactableChallenge ==
    /\ In("Reactable")
    /\ \E challenge \in possible_challenges(Game) :
         Commit(to_challenge(Start, challenge), [played EXCEPT !.challenged = TRUE])
    /\ UNCHANGED << seating, turns, exchanges, session, net, conn >>

ReactableBlock ==
    /\ In("Reactable")
    /\ \E block \in possible_blocks(Game) :
         Commit(transition_to_block(Start, block), [played EXCEPT !.blocked = TRUE])
    /\ UNCHANGED << seating, turns, exchanges, session, net, conn >>

ReactableAdvance ==
    /\ In("Reactable")
    /\ Commit(Reactable_advance(Start), played)
    /\ UNCHANGED << seating, turns, exchanges, session, net, conn >>

BlockChallenge ==
    /\ In("Block")
    /\ \E challenge \in possible_challenges(Game) :
         Commit(to_challenge(Start, challenge), [played EXCEPT !.challenged = TRUE])
    /\ UNCHANGED << seating, turns, exchanges, session, net, conn >>

BlockAdvance ==
    /\ In("Block")
    /\ Commit(Block_advance(Start), played)
    /\ UNCHANGED << seating, turns, exchanges, session, net, conn >>

ChallengeAdvance ==
    /\ In("Challenge")
    /\ Commit(Challenge_advance(Start),
              [played EXCEPT !.defended =
                  has_card(Game, state.actor, ClaimOf(state.kind, state.claim))])
    /\ UNCHANGED << seating, turns, exchanges, session, net, conn >>

ChooseVictimCardAdvance ==
    /\ In("ChooseVictimCard")
    /\ \E i \in DOMAIN state.choices :
         Commit(ChooseVictimCard_advance(Start, state.choices[i]), played)
    /\ UNCHANGED << seating, turns, exchanges, session, net, conn >>

ChooseOneFromThreeAdvance ==
    /\ In("ChooseOneFromThree")
    /\ \E i \in DOMAIN state.choices :
         Commit(ChooseOneFromThree_advance(Start, state.choices[i]), played)
    /\ UNCHANGED << seating, turns, exchanges, session, net, conn >>

ChooseTwoFromFourAdvance ==
    /\ In("ChooseTwoFromFour")
    /\ \E i, j \in DOMAIN state.choices :
         /\ i # j
         /\ Commit(ChooseTwoFromFour_advance(Start, state.choices[i], state.choices[j]),
                   played)
    /\ UNCHANGED << seating, turns, exchanges, session, net, conn >>

Next ==
    \/ WaitPlay
    \/ SafeAdvance
    \/ OnlyChallengeableChallenge
    \/ OnlyChallengeableAdvance
    \/ OnlyBlockableBlock
    \/ OnlyBlockableAdvance
    \/ ReactableChallenge
    \/ ReactableBlock
    \/ ReactableAdvance
    \/ BlockChallenge
    \/ BlockAdvance
    \/ ChallengeAdvance
    \/ ChooseVictimCardAdvance
    \/ ChooseOneFromThreeAdvance
    \/ ChooseTwoFromFourAdvance

Spec == Init /\ [][Next]_vars

\* Longer games at a quiet table: every action but Exchange is played and
\* every reaction window closes with all seats passing.
NextQuiet ==
    \/ QuietPlay
    \/ SafeAdvance
    \/ OnlyChallengeableAdvance
    \/ OnlyBlockableAdvance
    \/ ReactableAdvance
    \/ ChooseVictimCardAdvance

SpecQuiet == Init /\ [][NextQuiet]_vars

\* Whole games of Tax: every actor claims Duke, the others challenge or
\* pass, until one seat is left or the engine aborts.
NextTax ==
    \/ TaxPlay
    \/ OnlyChallengeableChallenge
    \/ OnlyChallengeableAdvance
    \/ ChallengeAdvance
    \/ ChooseVictimCardAdvance

SpecTax == Init /\ [][NextTax]_vars

\* Three turns with every reaction open: the actions that open a reaction
\* window are played, and every challenge, block and pass is taken.
ReactPlay ==
    /\ In("Wait")
    /\ turns < MaxReactTurns
    /\ \E action \in possible_actions :
         /\ action.kind \in {"Tax", "ForeignAid", "Steal", "Assassinate"}
         /\ Play(action)

NextReact ==
    \/ ReactPlay
    \/ OnlyChallengeableChallenge
    \/ OnlyChallengeableAdvance
    \/ OnlyBlockableBlock
    \/ OnlyBlockableAdvance
    \/ ReactableChallenge
    \/ ReactableBlock
    \/ ReactableAdvance
    \/ BlockChallenge
    \/ BlockAdvance
    \/ ChallengeAdvance
    \/ ChooseVictimCardAdvance

SpecReact == Init /\ [][NextReact]_vars

\* Tax until a Coup can be paid: Tax and Coup are played, Tax may be
\* challenged.
CoupPlay ==
    /\ In("Wait")
    /\ turns < MaxCoupTurns
    /\ \E action \in possible_actions :
         /\ action.kind \in {"Tax", "Coup"}
         /\ Play(action)

NextCoup ==
    \/ CoupPlay
    \/ SafeAdvance
    \/ OnlyChallengeableChallenge
    \/ OnlyChallengeableAdvance
    \/ ChallengeAdvance
    \/ ChooseVictimCardAdvance

SpecCoup == Init /\ [][NextCoup]_vars

\* ------------------------------------------------------------ quiet riches
\* Whole games of Income and Tax that nobody challenges: the seats draw on
\* the treasury until it is empty
IncomePlay ==
    /\ In("Wait")
    /\ \E action \in possible_actions :
         /\ action.kind \in {"Income", "Tax"}
         /\ Play(action)

NextIncome ==
    \/ IncomePlay
    \/ SafeAdvance
    \/ OnlyChallengeableAdvance

SpecIncome == Init /\ [][NextIncome]_vars

\* ------------------------------------------------------------- whole game
\* every action of the engine, with the first MaxTurns turns free and the
\* later ones Tax or Coup, so that a Coup is reached
MaxGraphTurns == 5

GraphPlay ==
    /\ In("Wait")
    /\ turns < MaxGraphTurns
    /\ \E action \in possible_actions :
         /\ turns >= MaxTurns => action.kind \in {"Tax", "Coup"}
         /\ action.kind = "Exchange" => exchanges < MaxExchanges
         /\ Play(action)

NextGraph ==
    \/ GraphPlay
    \/ SafeAdvance
    \/ OnlyChallengeableChallenge
    \/ OnlyChallengeableAdvance
    \/ OnlyBlockableBlock
    \/ OnlyBlockableAdvance
    \/ ReactableChallenge
    \/ ReactableBlock
    \/ ReactableAdvance
    \/ BlockChallenge
    \/ BlockAdvance
    \/ ChallengeAdvance
    \/ ChooseVictimCardAdvance
    \/ ChooseOneFromThreeAdvance
    \/ ChooseTwoFromFourAdvance

SpecGraph == Init /\ [][NextGraph]_vars

\* ---------------------------------------------------------------- session
\* Exchange turns played through the server: the game task hands the four
\* cards to the actor's session, the session prompts the client, reads
\* responses until one is accepted and passes it on to the game task.
MaxSessionExchanges == 2

\* what a client can send: any two cards, a response of another kind, or a
\* frame that does not deserialize
ClientResponses ==
    {[kind |-> "ExchangeTwo", cards |-> << a, b >>] : a, b \in Card}
    \cup {[kind |-> "Pass", cards |-> << >>],
          [kind |-> "Unparsable", cards |-> << >>]}

\* match_to_indices: the positions of the chosen cards among the presented
\* ones, each chosen card matched greedily to a distinct position; << >>
\* is None
match_to_indices(cards, choices) ==
    LET first == {i \in DOMAIN choices : choices[i] = cards[1]} IN
    IF first = {} THEN << >>
    ELSE LET i1 == CHOOSE i \in first : \A k \in first : i <= k
             second == {i \in DOMAIN choices \ {i1} : choices[i] = cards[2]}
         IN IF second = {} THEN << >>
            ELSE << i1, CHOOSE i \in second : \A k \in second : i <= k >>

\* the response_handler of ClientHandle::handle_choose_two: Ok with the
\* cards sent on choose_two, or Err(InvalidResponse)
handle_choose_two(choices, msg) ==
    IF msg.kind = "ExchangeTwo" /\ match_to_indices(msg.cards, choices) # << >>
    THEN [ok |-> TRUE, choose_two |-> << msg.cards >>]
    ELSE [ok |-> FALSE, choose_two |-> << >>]

ExchangePlay ==
    /\ In("Wait")
    /\ exchanges < MaxSessionExchanges
    /\ \E action \in possible_actions :
         /\ action.kind = "Exchange"
         /\ Play(action)

GameVars ==
    << phase, state, alive, dead, order, current_player, coins, deck,
       possible_actions, panicked, deck_ops, seating, played, turns,
       exchanges, net, conn >>

\* choose_two of the game task, up to its recv: the four cards go to the
\* actor's session
ChooseTwoSend ==
    /\ In("ChooseTwoFromFour")
    /\ session = NoSession
    /\ session' = [session EXCEPT !.game_message = state.choices]
    /\ UNCHANGED GameVars

\* handle_choose_two up to the read loop: the prompt goes to the client
HandleChooseTwo ==
    /\ session.game_message # << >>
    /\ session' = [session EXCEPT !.game_message = << >>,
                                  !.prompt = session.game_message,
                                  !.to_client = "TwoFromFourChoices"]
    /\ UNCHANGED GameVars

\* one turn of the loop of handle_client_response on a message of the client
HandleClientResponse ==
    /\ session.prompt # << >>
    /\ \E msg \in ClientResponses :
         IF msg.kind = "Unparsable"
         THEN session' = [session EXCEPT !.response = msg,
                                        !.to_client = "InvalidResponse"]
         ELSE LET result == handle_choose_two(session.prompt, msg) IN
              session' = [session EXCEPT
                             !.response = msg,
                             !.to_client = "None",
                             !.choose_two = result.choose_two,
                             !.prompt = IF result.ok THEN << >> ELSE @]
    /\ UNCHANGED GameVars

\* choose_two of the game task from its recv on: the engine takes the cards
ChooseTwoRecv ==
    /\ In("ChooseTwoFromFour")
    /\ session.choose_two # << >>
    /\ Commit(ChooseTwoFromFour_advance(Start, session.choose_two[1][1],
                                         session.choose_two[1][2]),
              played)
    /\ session' = NoSession
    /\ UNCHANGED << seating, turns, exchanges, net, conn >>

NextSession ==
    \/ ExchangePlay
    \/ OnlyChallengeableAdvance
    \/ ChooseTwoSend
    \/ HandleChooseTwo
    \/ HandleClientResponse
    \/ ChooseTwoRecv

SpecSession == Init /\ [][NextSession]_vars

Range(seq) == {seq[i] : i \in DOMAIN seq}

\* ----------------------------------------------------------- the game task
\* coup_game and the sessions of its seats.  coup_game takes the channels of
\* any number of seats; a turn is an action sent by the current player's
\* session, then the reaction window of its kind.  The Info sent at the top
\* of a round and the Outcome broadcasts are left out: no session answers
\* them and they carry nothing back to the game task.
MaxServerTurns == 2
\* turns played at the Tax table, enough for a seat to lose both cards and
\* a window to open after it
MaxServerTaxTurns == 3
\* turns played by the clients that send anything
MaxPromptTurns == 1

\* the actions the clients choose from here
ServerKinds == {"Tax", "ForeignAid", "Steal"}

\* player_channels: one entry per seat of the game, never removed
player_channels == DOMAIN net.inbox

\* a channel of capacity 1 takes a message only when empty
HasRoom(channel) == channel = << >>

GameMessage(kind, w, offered) == [kind |-> kind, w |-> w, offered |-> offered]

\* the response_handler of ClientHandle::handle_actions
handle_actions(actions, msg) ==
    IF msg.kind = "Act" /\ msg.action \in actions
    THEN [channel |-> "action", value |-> msg.action]
    ELSE [channel |-> "Invalid", value |-> NoAction]

\* the response_handler of ClientHandle::handle_challenge
handle_challenge(challenge, msg) ==
    CASE msg.kind = "Pass" -> [channel |-> "pass", value |-> challenge]
      [] msg.kind = "Challenge" -> [channel |-> "challenge", value |-> challenge]
      [] OTHER -> [channel |-> "Invalid", value |-> challenge]

\* the response_handler of ClientHandle::handle_blocks on Blocks::Other,
\* with ClientHandle::handle_block
handle_blocks(block, msg) ==
    CASE msg.kind = "Pass" -> [channel |-> "pass", value |-> block]
      [] msg.kind = "Block" /\ Block_claim(block) = msg.card ->
            [channel |-> "block", value |-> block]
      [] OTHER -> [channel |-> "Invalid", value |-> block]

\* the response_handler of ClientHandle::handle_choosing_victim
handle_choosing_victim(choices, msg) ==
    IF msg.kind = "ChooseVictim" /\ msg.card \in choices
    THEN [channel |-> "victim_card", value |-> msg.card]
    ELSE [channel |-> "Invalid", value |-> "None"]

\* ClientResponse::ExchangeTwo(cards)
ExchangeTwo(cards) ==
    [kind |-> "ExchangeTwo", action |-> NoAction, react |-> NoReaction,
     card |-> "None", cards |-> cards]

\* the response_handler of ClientHandle::handle_choose_one
handle_choose_one(choices, msg) ==
    IF msg.kind = "ExchangeOne" /\ msg.card \in Range(choices)
    THEN [channel |-> "choose_one", value |-> msg.card]
    ELSE [channel |-> "Invalid", value |-> "None"]

\* ClientHandle::handle_game_message and handle_action_choices: the handler
\* of the prompt's kind on a deserialized response
response_handler(prompt, msg) ==
    CASE prompt.kind = "Actions" -> handle_actions(prompt.offered, msg)
      [] prompt.kind = "Challenge" ->
            handle_challenge(CHOOSE c \in prompt.offered : TRUE, msg)
      [] prompt.kind = "Block" ->
            handle_blocks(CHOOSE b \in prompt.offered : TRUE, msg)
      [] prompt.kind = "Reactions" ->
            handle_reactions(prompt.offered, [kind |-> msg.kind, react |-> msg.react])
      [] prompt.kind = "Victim" -> handle_choosing_victim(prompt.offered, msg)
      [] prompt.kind = "ChooseOne" -> handle_choose_one(prompt.offered, msg)
      [] prompt.kind = "ChooseTwo" ->
            IF handle_choose_two(prompt.offered, msg).ok
            THEN [channel |-> "choose_two", value |-> msg.cards]
            ELSE [channel |-> "Invalid", value |-> << >>]

\* the prompts answered within ten seconds
TimedPrompts == {"Challenge", "Block", "Reactions"}

\* senders.<channel>.send(value): the message carries the window of the
\* prompt it answers
Forward(n, id, res, w) ==
    CASE res.channel = "action" ->
            [n EXCEPT !.action[id] = << [value |-> res.value, w |-> w] >>]
      [] res.channel = "challenge" ->
            [n EXCEPT !.challenge[id] = << [value |-> res.value, w |-> w] >>]
      [] res.channel = "block" ->
            [n EXCEPT !.block[id] = << [value |-> res.value, w |-> w] >>]
      [] res.channel = "victim_card" ->
            [n EXCEPT !.victim_card[id] = << [value |-> res.value, w |-> w] >>]
      [] res.channel = "choose_one" ->
            [n EXCEPT !.choose_one[id] = << [value |-> res.value, w |-> w] >>]
      [] res.channel = "choose_two" ->
            [n EXCEPT !.choose_two[id] = << [value |-> res.value, w |-> w] >>]
      [] res.channel = "pass" ->
            [n EXCEPT !.pass[id] = << [value |-> "Pass", w |-> w] >>]

ChannelOf(n, id, channel) ==
    CASE channel = "action" -> n.action[id]
      [] channel = "challenge" -> n.challenge[id]
      [] channel = "block" -> n.block[id]
      [] channel = "victim_card" -> n.victim_card[id]
      [] channel = "choose_one" -> n.choose_one[id]
      [] channel = "choose_two" -> n.choose_two[id]
      [] channel = "pass" -> n.pass[id]

\* the responses a prompt offers
Offered(prompt) ==
    CASE prompt.kind = "Actions" ->
            {Frame("Act", a, NoReaction, "None") : a \in prompt.offered}
      [] prompt.kind = "Challenge" ->
            {Frame("Pass", NoAction, NoReaction, "None"),
             Frame("Challenge", NoAction, NoReaction, "None")}
      [] prompt.kind = "Block" ->
            {Frame("Pass", NoAction, NoReaction, "None")}
            \cup {Frame("Block", NoAction, NoReaction, Block_claim(b)) :
                     b \in prompt.offered}
      [] prompt.kind = "Reactions" ->
            {Frame("Pass", NoAction, NoReaction, "None")}
            \cup {Frame("React", NoAction, r, "None") : r \in prompt.offered}
      [] prompt.kind = "Victim" ->
            {Frame("ChooseVictim", NoAction, NoReaction, c) : c \in prompt.offered}
      [] prompt.kind = "ChooseOne" ->
            {Frame("ExchangeOne", NoAction, NoReaction, c) :
                c \in Range(prompt.offered)}
      [] prompt.kind = "ChooseTwo" ->
            {ExchangeTwo(<< prompt.offered[p[1]], prompt.offered[p[2]] >>) :
                p \in {q \in (DOMAIN prompt.offered) \X (DOMAIN prompt.offered) :
                          q[1] # q[2]}}
      [] OTHER -> {}

\* what a client can send on a prompt: what it offers, responses it does
\* not offer, and a frame that does not deserialize
ClientFrames(id, prompt) ==
    Offered(prompt)
    \cup {Frame("Unparsable", NoAction, NoReaction, "None"),
          Frame("Act", Action(id, "Coup", id), NoReaction, "None"),
          Frame("ChooseVictim", NoAction, NoReaction, "Contessa"),
          Frame("Block", NoAction, NoReaction, "Contessa")}

\* the main loop of client_handler_inner takes the GameMessage of the game
\* task; handle_game_message sends the choices to the client
SessionTake(id) ==
    /\ net.prompt[id].kind = "None"
    /\ net.inbox[id] # << >>
    /\ net' = [net EXCEPT !.inbox[id] = << >>,
                          !.prompt[id] = net.inbox[id][1],
                          !.read[id] = NoRead,
                          !.to_client[id] = net.inbox[id][1].kind]
    /\ UNCHANGED << phase, state, alive, dead, order, current_player, coins,
                    deck, possible_actions, panicked, deck_ops, seating, played,
                    turns, exchanges, session, conn >>

\* one turn of the loop of handle_client_response or, within the deadline,
\* of handle_timed_client_response, on the frame msg of the client
read_response(id, msg) ==
    /\ net.prompt[id].kind # "None"
    /\ IF msg.kind = "Unparsable"
       THEN net' = [net EXCEPT
                       !.read[id] = [frame |-> msg, answer |-> "InvalidResponse"],
                       !.to_client[id] = "InvalidResponse"]
       ELSE LET res == response_handler(net.prompt[id], msg) IN
            IF res.channel = "Invalid"
            THEN net' = [net EXCEPT
                            !.read[id] = [frame |-> msg, answer |-> "None"]]
            ELSE /\ HasRoom(ChannelOf(net, id, res.channel))
                 /\ net' = [Forward(net, id, res, net.prompt[id].w) EXCEPT
                               !.read[id] = NoRead,
                               !.prompt[id] = NoMessage]
    /\ UNCHANGED << phase, state, alive, dead, order, current_player, coins,
                    deck, possible_actions, panicked, deck_ops, seating, played,
                    turns, exchanges, session, conn >>

\* the tables played here: the kinds of action the clients choose and the
\* number of turns they play
Chosen(msg, kinds, max_turns) ==
    msg.kind = "Act" /\ msg.action.kind # "Coup" =>
        msg.action.kind \in kinds /\ turns < max_turns

\* a client that sends what it was offered
SessionReply(id) ==
    \E msg \in Offered(net.prompt[id]) :
        /\ Chosen(msg, ServerKinds, MaxServerTurns)
        /\ read_response(id, msg)

\* a client that sends what it was offered, at a table where every actor
\* takes Tax
SessionReplyTax(id) ==
    \E msg \in Offered(net.prompt[id]) :
        /\ Chosen(msg, {"Tax"}, MaxServerTaxTurns)
        /\ read_response(id, msg)

\* a client that sends anything
SessionResponse(id) ==
    \E msg \in ClientFrames(id, net.prompt[id]) :
        /\ Chosen(msg, ServerKinds, MaxPromptTurns)
        /\ read_response(id, msg)

\* a deadline that sends the Pass and goes on reading responses
SessionTimeout_reads_on(id) ==
    /\ net.prompt[id].kind \in TimedPrompts
    /\ HasRoom(net.pass[id])
    /\ net' = [net EXCEPT !.pass[id] = << [value |-> "Pass", w |-> net.prompt[id].w] >>,
                          !.read[id] = NoRead]
    /\ UNCHANGED << phase, state, alive, dead, order, current_player, coins,
                    deck, possible_actions, panicked, deck_ops, seating, played,
                    turns, exchanges, session, conn >>

\* handle_timed_client_response when timeout_at returns Err: the deadline
\* has passed and the session passes for the client
SessionTimeout(id) ==
    /\ net.prompt[id].kind \in TimedPrompts
    /\ HasRoom(net.pass[id])
    /\ net' = [net EXCEPT !.pass[id] = << [value |-> "Pass", w |-> net.prompt[id].w] >>,
                          !.read[id] = NoRead,
                          !.prompt[id] = NoMessage]
    /\ UNCHANGED << phase, state, alive, dead, order, current_player, coins,
                    deck, possible_actions, panicked, deck_ops, seating, played,
                    turns, exchanges, session, conn >>

\* the seats of a set in the order the prompts are sent
RECURSIVE Ascending(_)
Ascending(ids) ==
    IF ids = {} THEN << >>
    ELSE LET least == CHOOSE i \in ids : \A k \in ids : i <= k
         IN << least >> \o Ascending(ids \ {least})

\* the keys of challenges.all(), blocks.all() and reactions.all()
Prompted(g) ==
    CASE g.phase = "OnlyChallengeable" -> {c.challenger : c \in possible_challenges(g)}
      [] g.phase = "OnlyBlockable" -> {b.blocker : b \in possible_blocks(g)}
      [] g.phase = "Reactable" -> DOMAIN PossibleReactions_all(g)

\* the Choices send_challenges, send_blocks and send_reactions send a seat
Choices(g, id, w) ==
    CASE g.phase = "OnlyChallengeable" ->
            GameMessage("Challenge", w, {c \in possible_challenges(g) : c.challenger = id})
      [] g.phase = "OnlyBlockable" ->
            GameMessage("Block", w, {b \in possible_blocks(g) : b.blocker = id})
      [] g.phase = "Reactable" ->
            GameMessage("Reactions", w, PossibleReactions_all(g)[id])

Senders == {"send_challenges", "send_blocks", "send_reactions"}
Handlers == {"handle_challengeable", "handle_blockable", "handle_reactable"}

SenderOf(ph) ==
    CASE ph = "OnlyChallengeable" -> "send_challenges"
      [] ph = "OnlyBlockable" -> "send_blocks"
      [] ph = "Reactable" -> "send_reactions"

HandlerOf(pc) ==
    CASE pc = "send_challenges" -> "handle_challengeable"
      [] pc = "send_blocks" -> "handle_blockable"
      [] pc = "send_reactions" -> "handle_reactable"

\* a response the select! of a window takes off a channel
Taken(kind, msg, id, fits) ==
    [kind |-> kind, w |-> msg.w, at |-> net.window, seat |-> id, fits |-> fits]

\* a select! that goes on polling after a branch has run
select_polls_on(n) == [n EXCEPT !.applied = @ + 1]

\* the branch of the select! that ran returns from the handler: the other
\* futures are dropped and coup_game loops
select(n) == [n EXCEPT !.pc = "Loop", !.got_pass = {}, !.applied = @ + 1]

\* a handle_wait that sends the actions to any seat
CoordWait_any ==
    /\ net.pc = "Loop"
    /\ In("Wait")
    /\ \E id \in player_channels :
          /\ HasRoom(net.inbox[id])
          /\ net' = [net EXCEPT
                        !.pc = "handle_wait",
                        !.inbox[id] =
                            << GameMessage("Actions", 0, possible_actions) >>]
    /\ UNCHANGED << phase, state, alive, dead, order, current_player, coins,
                    deck, possible_actions, panicked, deck_ops, seating, played,
                    turns, exchanges, session, conn >>

\* coup_game on Wait and handle_wait up to its recv: the actions go to the
\* current player's session
CoordWait ==
    /\ net.pc = "Loop"
    /\ In("Wait")
    /\ HasRoom(net.inbox[current_player])
    /\ net' = [net EXCEPT
                  !.pc = "handle_wait",
                  !.inbox[current_player] =
                      << GameMessage("Actions", 0, possible_actions) >>]
    /\ UNCHANGED << phase, state, alive, dead, order, current_player, coins,
                    deck, possible_actions, panicked, deck_ops, seating, played,
                    turns, exchanges, session, conn >>

\* handle_wait from its recv: the action is played; handle_safe advances at
\* once, the other handlers start sending their prompts
CoordPlay ==
    /\ net.pc = "handle_wait"
    /\ In("Wait")
    /\ net.action[current_player] # << >>
    /\ LET choice == net.action[current_player][1].value
           g == Wait_play(Start, choice)
           p == [actor |-> choice.actor, kind |-> choice.kind,
                 victim |-> choice.victim, coins |-> alive[choice.actor].coins,
                 pile |-> coins, challenged |-> FALSE, defended |-> FALSE,
                 blocked |-> FALSE, ended |-> "None"]
           n == [net EXCEPT !.action[current_player] = << >>]
       IN IF g.phase = "Safe"
          THEN /\ \E next \in {Safe_advance(g)} : Commit(next, p)
               /\ net' = [n EXCEPT !.pc = "Loop"]
          ELSE /\ \E next \in {g} : Commit(next, p)
               /\ net' = [n EXCEPT !.pc = SenderOf(g.phase),
                                   !.window = @ + 1,
                                   !.to_send = Ascending(Prompted(g)),
                                   !.got_pass = {}, !.nonpass = 0, !.applied = 0]
    /\ turns' = turns + 1
    /\ UNCHANGED << seating, exchanges, session, conn >>

\* one send of send_challenges, send_blocks or send_reactions; after the
\* last one the handler builds its futures and waits in its select!
CoordSend ==
    /\ net.pc \in Senders
    /\ ~panicked
    /\ LET id == Head(net.to_send) IN
       /\ HasRoom(net.inbox[id])
       /\ net' = [net EXCEPT
                     !.inbox[id] = << Choices(Game, id, net.window) >>,
                     !.to_send = Tail(@),
                     !.pc = IF Tail(net.to_send) = << >> THEN HandlerOf(@) ELSE @]
    /\ UNCHANGED << phase, state, alive, dead, order, current_player, coins,
                    deck, possible_actions, panicked, deck_ops, seating, played,
                    turns, exchanges, session, conn >>

\* the seats whose challenge, block and pass channels the handler polls:
\* every entry of player_channels but the actor's
Polled == player_channels \ {state.actor}

\* join_all(passes) takes a pass; others are still awaited
CoordPass(id) ==
    /\ net.pc \in Handlers
    /\ ~panicked
    /\ id \in Polled \ net.got_pass
    /\ net.pass[id] # << >>
    /\ net.got_pass \cup {id} # Polled
    /\ net' = [net EXCEPT !.pass[id] = << >>,
                          !.got_pass = @ \cup {id},
                          !.taken = Taken("pass", net.pass[id][1], id, TRUE)]
    /\ UNCHANGED << phase, state, alive, dead, order, current_player, coins,
                    deck, possible_actions, panicked, deck_ops, seating, played,
                    turns, exchanges, session, conn >>

\* join_all(passes) takes the last pass it awaits: the branch of the passes
\* runs and the action goes through
CoordPasses(id) ==
    /\ net.pc \in Handlers
    /\ ~panicked
    /\ id \in Polled \ net.got_pass
    /\ net.pass[id] # << >>
    /\ net.got_pass \cup {id} = Polled
    /\ \E c1, c2 \in Card :
          \* only an Exchange draws: pin the unused inputs to one value
          /\ IF net.pc = "handle_challengeable" /\ state.kind = "Exchange"
             THEN CanDraw(Game, c1, c2)
             ELSE c1 = "Duke" /\ c2 = "Duke"
          /\ \E next \in {CASE net.pc = "handle_challengeable" ->
                                  OnlyChallengeable_advance(Start, c1, c2)
                            [] net.pc = "handle_blockable" ->
                                  OnlyBlockable_advance(Start)
                            [] net.pc = "handle_reactable" ->
                                  Reactable_advance(Start)} :
                Commit(next, played)
    /\ net' = select([net EXCEPT !.pass[id] = << >>,
                                 !.taken = Taken("pass", net.pass[id][1], id, TRUE)])
    /\ UNCHANGED << seating, turns, exchanges, session, conn >>

\* select_all(challenges) yields a challenge: game.challenge(challenge) and
\* the advance of the Challenge state
CoordChallenge(id) ==
    /\ net.pc \in {"handle_challengeable", "handle_reactable"}
    /\ ~panicked
    /\ id \in Polled
    /\ net.challenge[id] # << >>
    /\ LET challenge == net.challenge[id][1].value IN
       /\ \E next \in {Challenge_advance(to_challenge(Start, challenge))} :
             Commit(next,
                 [played EXCEPT
                     !.challenged = TRUE,
                     !.defended = /\ challenge.actor \in DOMAIN alive
                                  /\ has_card(Game, challenge.actor,
                                              ClaimOf(challenge.kind, challenge.claim))])
       /\ net' = select([net EXCEPT
                            !.challenge[id] = << >>,
                            !.nonpass = @ + 1,
                            !.taken = Taken("challenge", net.challenge[id][1], id,
                                            challenge \in possible_challenges(Game))])
    /\ UNCHANGED << seating, turns, exchanges, session, conn >>

\* the block future of handle_reactable (the victim's channel) or
\* select_all(blocks) of handle_blockable yields a block: game.block(block)
\* and the advance of the Block state
CoordBlock(id) ==
    /\ \/ net.pc = "handle_blockable" /\ id \in Polled
       \/ net.pc = "handle_reactable" /\ id = state.victim
    /\ ~panicked
    /\ net.block[id] # << >>
    /\ LET block == net.block[id][1].value IN
       /\ \E next \in {Block_advance(transition_to_block(Start, block))} :
             Commit(next, [played EXCEPT !.blocked = TRUE])
       /\ net' = select([net EXCEPT
                            !.block[id] = << >>,
                            !.nonpass = @ + 1,
                            !.taken = Taken("block", net.block[id][1], id,
                                            block \in possible_blocks(Game))])
    /\ UNCHANGED << seating, turns, exchanges, session, conn >>

\* choose_victim_card up to its recv
CoordVictim ==
    /\ net.pc = "Loop"
    /\ In("ChooseVictimCard")
    /\ HasRoom(net.inbox[state.victim])
    /\ net' = [net EXCEPT
                  !.pc = "choose_victim_card",
                  !.inbox[state.victim] =
                      << GameMessage("Victim", 0, Range(state.choices)) >>]
    /\ UNCHANGED << phase, state, alive, dead, order, current_player, coins,
                    deck, possible_actions, panicked, deck_ops, seating, played,
                    turns, exchanges, session, conn >>

\* choose_victim_card from its recv
CoordVictimCard ==
    /\ net.pc = "choose_victim_card"
    /\ In("ChooseVictimCard")
    /\ net.victim_card[state.victim] # << >>
    /\ \E next \in {ChooseVictimCard_advance(
                           Start, net.victim_card[state.victim][1].value)} :
          Commit(next, played)
    /\ net' = [net EXCEPT !.pc = "Loop", !.victim_card[state.victim] = << >>]
    /\ UNCHANGED << seating, turns, exchanges, session, conn >>

\* choose_one up to its recv: the three cards go to the actor's session
CoordChooseOne ==
    /\ net.pc = "Loop"
    /\ In("ChooseOneFromThree")
    /\ HasRoom(net.inbox[state.actor])
    /\ net' = [net EXCEPT
                  !.pc = "choose_one",
                  !.inbox[state.actor] =
                      << GameMessage("ChooseOne", 0, state.choices) >>]
    /\ UNCHANGED << phase, state, alive, dead, order, current_player, coins,
                    deck, possible_actions, panicked, deck_ops, seating, played,
                    turns, exchanges, session, conn >>

\* choose_one from its recv
CoordChooseOneCard ==
    /\ net.pc = "choose_one"
    /\ In("ChooseOneFromThree")
    /\ net.choose_one[state.actor] # << >>
    /\ \E next \in {ChooseOneFromThree_advance(
                           Start, net.choose_one[state.actor][1].value)} :
          Commit(next, played)
    /\ net' = [net EXCEPT !.pc = "Loop", !.choose_one[state.actor] = << >>]
    /\ UNCHANGED << seating, turns, exchanges, session, conn >>

\* choose_two up to its recv: the four cards go to the actor's session
CoordChooseTwo ==
    /\ net.pc = "Loop"
    /\ In("ChooseTwoFromFour")
    /\ HasRoom(net.inbox[state.actor])
    /\ net' = [net EXCEPT
                  !.pc = "choose_two",
                  !.inbox[state.actor] =
                      << GameMessage("ChooseTwo", 0, state.choices) >>]
    /\ UNCHANGED << phase, state, alive, dead, order, current_player, coins,
                    deck, possible_actions, panicked, deck_ops, seating, played,
                    turns, exchanges, session, conn >>

\* choose_two from its recv
CoordChooseTwoCards ==
    /\ net.pc = "choose_two"
    /\ In("ChooseTwoFromFour")
    /\ net.choose_two[state.actor] # << >>
    /\ \E next \in {ChooseTwoFromFour_advance(
                           Start, net.choose_two[state.actor][1].value[1],
                           net.choose_two[state.actor][1].value[2])} :
          Commit(next, played)
    /\ net' = [net EXCEPT !.pc = "Loop", !.choose_two[state.actor] = << >>]
    /\ UNCHANGED << seating, turns, exchanges, session, conn >>

\* coup_game on End: the summary is broadcast and the task returns
CoordEnd ==
    /\ net.pc = "Loop"
    /\ In("End")
    /\ net' = [net EXCEPT !.pc = "End"]
    /\ UNCHANGED << phase, state, alive, dead, order, current_player, coins,
                    deck, possible_actions, panicked, deck_ops, seating, played,
                    turns, exchanges, session, conn >>

NextServer ==
    \/ CoordWait
    \/ CoordPlay
    \/ CoordSend
    \/ \E id \in player_channels : CoordPass(id)
    \/ \E id \in player_channels : CoordPasses(id)
    \/ \E id \in player_channels : CoordChallenge(id)
    \/ \E id \in player_channels : CoordBlock(id)
    \/ CoordVictim
    \/ CoordVictimCard
    \/ CoordEnd
    \/ \E id \in player_channels : SessionTake(id)
    \/ \E id \in player_channels : SessionReply(id)
    \/ \E id \in player_channels : SessionTimeout(id)

SpecServer == Init /\ [][NextServer]_vars

\* the Tax table
NextServerTax ==
    \/ CoordWait
    \/ CoordPlay
    \/ CoordSend
    \/ \E id \in player_channels : CoordPass(id)
    \/ \E id \in player_channels : CoordPasses(id)
    \/ \E id \in player_channels : CoordChallenge(id)
    \/ CoordVictim
    \/ CoordVictimCard
    \/ CoordEnd
    \/ \E id \in player_channels : SessionTake(id)
    \/ \E id \in player_channels : SessionReplyTax(id)
    \/ \E id \in player_channels : SessionTimeout(id)

SpecServerTax == Init /\ [][NextServerTax]_vars

\* The Tax table with the scheduling the runtime gives: the game task and
\* the sessions are tasks that run when they can, and the deadline of a
\* timed prompt does expire.  No client is bound to answer.
Scheduled ==
    \/ \E id \in player_channels : SessionTake(id)
    \/ \E id \in player_channels : SessionTimeout(id)
    \/ CoordWait
    \/ CoordSend
    \/ \E id \in player_channels : CoordPass(id)
    \/ CoordVictim
    \/ CoordEnd
    \/ CoordPlay
    \/ \E id \in player_channels : CoordPasses(id)
    \/ CoordVictimCard
    \/ \E id \in player_channels : CoordChallenge(id)

FairServerTax == SpecServerTax /\ WF_vars(Scheduled)

\* the same games with clients that send anything
NextPrompt ==
    \/ CoordWait
    \/ CoordPlay
    \/ CoordSend
    \/ \E id \in player_channels : CoordPass(id)
    \/ \E id \in player_channels : CoordPasses(id)
    \/ \E id \in player_channels : CoordChallenge(id)
    \/ \E id \in player_channels : CoordBlock(id)
    \/ CoordVictim
    \/ CoordVictimCard
    \/ \E id \in player_channels : SessionTake(id)
    \/ \E id \in player_channels : SessionResponse(id)
    \/ \E id \in player_channels : SessionTimeout(id)

SpecPrompt == Init /\ [][NextPrompt]_vars

\* games in which the actors also take Exchange, played by clients that
\* send what they were offered
MaxTargetTurns == 2
TargetKinds == {"Exchange", "ForeignAid", "Steal"}

SessionReplyTargets(id) ==
    \E msg \in Offered(net.prompt[id]) :
        /\ Chosen(msg, TargetKinds, MaxTargetTurns)
        /\ read_response(id, msg)

NextTargets ==
    \/ CoordWait
    \/ CoordPlay
    \/ CoordSend
    \/ \E id \in player_channels : CoordPass(id)
    \/ \E id \in player_channels : CoordPasses(id)
    \/ \E id \in player_channels : CoordChallenge(id)
    \/ \E id \in player_channels : CoordBlock(id)
    \/ CoordVictim
    \/ CoordVictimCard
    \/ CoordChooseOne
    \/ CoordChooseOneCard
    \/ CoordChooseTwo
    \/ CoordChooseTwoCards
    \/ \E id \in player_channels : SessionTake(id)
    \/ \E id \in player_channels : SessionReplyTargets(id)
    \/ \E id \in player_channels : SessionTimeout(id)

SpecTargets == Init /\ [][NextTargets]_vars

\* ------------------------------------------------------------ connections
\* From the socket to the end of the game: client_handler registers with
\* the dispatcher, the dispatcher fills a lobby and starts the game task,
\* the session tells its client the game id and its seat and then serves
\* the game task and the client.  Of the games the dispatcher starts the
\* task of the first is followed, and of it what it sends, not the game it
\* plays: a round is the Info of every seat, one prompt, the response to it
\* and the Outcome broadcast; which seat is prompted, with what, and when
\* the game is over are free.  MaxFrames bounds the frames the clients send
\* altogether, a Close included.
MaxFrames == 1
MaxRounds == 1
MaxSilentRounds == 2

ServerVars ==
    << phase, state, alive, dead, order, current_player, coins, deck,
       possible_actions, panicked, deck_ops, seating, played, turns,
       exchanges, session, net >>

\* the messages a session sends only to a seated client
SeatedMessages ==
    {"Info", "ActionChoices", "ChallengeChoice", "Outcome", "End", "GameCancelled"}

\* the responses a prompt accepts
Accepts(prompt, kind) ==
    \/ prompt = "ActionChoices" /\ kind = "Act"
    \/ prompt = "ChallengeChoice" /\ kind \in {"Pass", "Challenge"}

\* HashMap::insert and HashMap::remove
Put(map, key, value) ==
    [k \in DOMAIN map \cup {key} |-> IF k = key THEN value ELSE map[k]]

Without(map, key) == [k \in DOMAIN map \ {key} |-> map[k]]

\* a lobby as assign_to_lobby makes it; spawned and cancelled count the
\* game tasks spawned for it and the GameCancelled broadcast on it, seats
\* are the PlayerIds generate_channels made for its game
GameInfo(channel_senders) ==
    [channel_senders |-> channel_senders, handle |-> "None",
     spawned |-> 0, cancelled |-> 0, seats |-> {}]

\* the tasks that have ended drop their receivers: a session that returned
\* or panicked, and a seat whose PlayerGameInfo never got to its session
Gone(c0, c) ==
    c0.stage[c] \in {"Disconnected", "Aborted", "Panicked"} \/ c0.id[c] = 0

\* the game task has returned or is aborted, its receivers are dropped
Dropped(c0) == c0.game \in {"Done", "Failed", "Aborted"}

\* broadcast::Sender::send to a receiver of capacity 2, subscribed when the
\* channels of the game are made: a receiver that lags loses the oldest
\* message
Subscribed(queue, message) ==
    IF Len(queue) < BROADCAST_SLOTS THEN Append(queue, message)
    ELSE Append(Tail(queue), message)

Broadcast(c0, game_id, message) ==
    [c \in Sockets |->
        IF c0.game_id[c] = game_id /\ ~Gone(c0, c)
        THEN Subscribed(c0.broadcast[c], message)
        ELSE c0.broadcast[c]]

\* client_handler up to register.send: the socket is split and the two
\* oneshot senders go to the dispatcher
Connect(c) ==
    /\ conn.stage[c] = "None"
    /\ conn' = [conn EXCEPT !.stage[c] = "Registering",
                            !.register = Append(@, c)]
    /\ UNCHANGED ServerVars

\* an assign_to_lobby that does not look at the handle
Joinable_started(lobbies) ==
    {game_id \in DOMAIN lobbies :
        Len(lobbies[game_id].channel_senders) < LOBBY_SEATS}

\* assign_to_lobby: the lobbies that have not started and have space
Joinable(lobbies) ==
    {game_id \in DOMAIN lobbies :
        /\ lobbies[game_id].handle = "None"
        /\ Len(lobbies[game_id].channel_senders) < LOBBY_SEATS}

\* assign_to_lobby with the lobby that find came upon, or with a new uuid
assign_to_lobby(lobbies, sender, game_id) ==
    IF game_id \in DOMAIN lobbies
    THEN [lobbies EXCEPT ![game_id].channel_senders = Append(@, sender)]
    ELSE Put(lobbies, game_id, GameInfo(<< sender >>))

\* the seats the dispatcher hands out before a send to a dropped receiver
\* makes it panic
RECURSIVE Delivered(_, _)
Delivered(c0, connections) ==
    IF connections = << >> THEN << >>
    ELSE IF c0.dispatch[Head(connections)] = "Dropped" THEN << >>
    ELSE << Head(connections) >> \o Delivered(c0, Tail(connections))

\* the dispatcher starts a lobby: generate_channels, the game task is
\* spawned and every pending session is sent its PlayerGameInfo
start(c0, game_id) ==
    LET connections == c0.lobbies[game_id].channel_senders
        sent == Delivered(c0, connections)
        PlayerIdOf(k) == CHOOSE i \in DOMAIN connections : connections[i] = k
    IN [c0 EXCEPT
           !.lobbies[game_id] = [@ EXCEPT !.channel_senders = << >>,
                                          !.handle = "Running",
                                          !.spawned = @ + 1,
                                          !.seats = DOMAIN connections],
           !.dispatch = [k \in Sockets |->
               IF k \in Range(sent) THEN "Sent" ELSE @[k]],
           !.id = [k \in Sockets |->
               IF k \in Range(sent) THEN PlayerIdOf(k) ELSE @[k]],
           !.dispatcher = IF sent = connections THEN @ ELSE "Panicked",
           !.playing = IF @ = 0 THEN game_id ELSE @,
           !.players = IF c0.playing = 0 THEN connections ELSE @,
           !.game = IF c0.playing = 0 THEN "Loop" ELSE @]

\* the dispatcher on task_receiver
Dispatch ==
    /\ conn.dispatcher = "Running"
    /\ conn.register # << >>
    /\ LET sender == Head(conn.register)
           open == Joinable(conn.lobbies)
       IN \E game_id \in (IF open = {} THEN {conn.uuids + 1} ELSE open) :
             LET c1 == [conn EXCEPT
                           !.register = Tail(@),
                           !.uuids = IF open = {} THEN @ + 1 ELSE @,
                           !.lobbies = assign_to_lobby(@, sender, game_id),
                           !.game_id[sender] = game_id]
             IN conn' = IF Len(c1.lobbies[game_id].channel_senders) >= START_SEATS
                        THEN start(c1, game_id)
                        ELSE c1
    /\ UNCHANGED ServerVars

\* a clean-up that leaves the lobby in the live map
cancel_keeps_lobby(c0, game_id) ==
    [c0 EXCEPT
        !.lobbies[game_id].cancelled = @ + 1,
        !.broadcast = Broadcast(c0, game_id, "GameCancelled")]

\* the dispatcher cleans up a lobby: GameCancelled is broadcast, the game
\* task is aborted and the lobby goes to finished_games
cancel(c0, game_id) ==
    LET finished_game == c0.lobbies[game_id] IN
    [c0 EXCEPT
        !.lobbies = Without(@, game_id),
        !.broadcast = Broadcast(c0, game_id, "GameCancelled"),
        !.finished_games =
            Put(@, game_id,
                [finished_game EXCEPT
                    !.cancelled = @ + 1,
                    !.handle = IF @ = "Running" THEN "Aborted" ELSE @]),
        !.game = IF c0.playing = game_id /\ ~Dropped(c0) THEN "Aborted" ELSE @]

\* the dispatcher on disconnected
DispatchDisconnected ==
    /\ conn.dispatcher = "Running"
    /\ conn.disconnected # << >>
    /\ LET game_id == Head(conn.disconnected)
           c1 == [conn EXCEPT !.disconnected = Tail(@)]
       IN conn' = IF game_id \in DOMAIN conn.lobbies
                  THEN cancel(c1, game_id)
                  ELSE c1
    /\ UNCHANGED ServerVars

\* client_handler when client_handler_inner returns Err: the disconnect is
\* reported to the dispatcher and the receivers of the session are dropped
Failed(c0, c) ==
    [c0 EXCEPT !.stage[c] = "Disconnected",
               !.reported = @ \cup {c},
               !.disconnected = Append(@, c0.game_id[c]),
               !.dispatch[c] = IF @ = "Empty" THEN "Dropped" ELSE @]

\* client_handler_inner returns Err, for whichever of its reasons
SessionErr(c) ==
    /\ conn.game_id[c] # 0
    /\ conn.stage[c] \in {"Registering", "Lobby", "Main", "Prompt"}
    /\ conn' = Failed(conn, c)
    /\ UNCHANGED ServerVars

\* SplitSink::send to the client: it goes out, or it fails and the session
\* returns Err.  It fails once the session has read the Close of the client
\* and may fail as soon as the client has closed.
Send(c0, c, message) ==
    (IF c0.closed[c] # "Seen"
     THEN {[c0 EXCEPT !.out[c] = Append(@, message)]} ELSE {})
    \cup (IF c0.closed[c] # "Open" THEN {Failed(c0, c)} ELSE {})

\* mpsc::Sender::send(..).await.unwrap() of a session to the game task: the
\* session panics when the game task has dropped its receivers
forward(c0, c, response) ==
    IF Dropped(c0)
    THEN [c0 EXCEPT !.stage[c] = "Panicked"]
    ELSE [c0 EXCEPT !.response[c] = << response >>,
                    !.stage[c] = "Main",
                    !.prompt[c] = "None"]

\* client_handler from the game id on, client_handler_inner to its first
\* loop: the GameId is sent
SendGameId(c) ==
    /\ conn.stage[c] = "Registering"
    /\ conn.game_id[c] # 0
    /\ conn' \in Send([conn EXCEPT !.stage[c] = "Lobby"], c, "GameId")
    /\ UNCHANGED ServerVars

\* the client sends a text frame; it is early when the dispatcher has not
\* yet sent the client its seat
ClientSend(c) ==
    /\ conn.stage[c] # "None"
    /\ conn.closed[c] = "Open"
    /\ conn.sent < MaxFrames
    /\ \E kind \in {"Pass", "Act"} :
          conn' = [conn EXCEPT
                      !.sent = @ + 1,
                      !.wire[c] = Append(@, [kind |-> kind,
                                             early |-> conn.dispatch[c] = "Empty"])]
    /\ UNCHANGED ServerVars

\* the client closes the connection; it is early as above
ClientClose(c) ==
    /\ conn.stage[c] # "None"
    /\ conn.closed[c] = "Open"
    /\ conn.sent < MaxFrames
    /\ conn' = [conn EXCEPT
                   !.closed[c] = "Closed",
                   !.sent = @ + 1,
                   !.wire[c] = Append(@, [kind |-> "Close",
                                          early |-> conn.dispatch[c] = "Empty"])]
    /\ UNCHANGED ServerVars

\* a frame is read: what the session knows of it
Read(c0, c, answer) ==
    LET f == Head(c0.wire[c]) IN
    [c0 EXCEPT !.wire[c] = Tail(@),
               !.closed[c] = IF f.kind = "Close" THEN "Seen" ELSE @,
               !.frame[c] = [kind |-> f.kind, early |-> f.early,
                             answer |-> answer, forwarded |-> FALSE]]

\* the first loop of client_handler_inner on a frame of the client: a text
\* frame is answered with NotReady, any other frame is passed over
LobbyFrame(c) ==
    /\ conn.stage[c] = "Lobby"
    /\ conn.wire[c] # << >>
    /\ IF Head(conn.wire[c]).kind = "Close"
       THEN conn' = Read(conn, c, "None")
       ELSE conn' \in Send(Read(conn, c, "NotReady"), c, "NotReady")
    /\ UNCHANGED ServerVars

\* the first loop of client_handler_inner on dispatch_receiver: the session
\* has its channels and sends the PlayerId
Seated(c) ==
    /\ conn.stage[c] = "Lobby"
    /\ conn.dispatch[c] = "Sent"
    /\ conn' \in Send([conn EXCEPT !.dispatch[c] = "Taken",
                                   !.stage[c] = "Main"], c, "PlayerId")
    /\ UNCHANGED ServerVars

\* the second loop of client_handler_inner on a frame of the client: Close
\* is a disconnect, anything else is answered with NotReady
MainFrame(c) ==
    /\ conn.stage[c] = "Main"
    /\ conn.wire[c] # << >>
    /\ IF Head(conn.wire[c]).kind = "Close"
       THEN conn' = Failed(Read(conn, c, "None"), c)
       ELSE conn' \in Send(Read(conn, c, "NotReady"), c, "NotReady")
    /\ UNCHANGED ServerVars

\* the second loop on info.recv
MainInfo(c) ==
    /\ conn.stage[c] = "Main"
    /\ conn.info[c] # << >>
    /\ conn' \in Send([conn EXCEPT !.info[c] = << >>], c, "Info")
    /\ UNCHANGED ServerVars

\* the session has sent GameCancelled, or has failed to: it returns Err
Cancelled(c0, c) ==
    {IF next.stage[c] = "Disconnected" THEN next ELSE Failed(next, c) :
        next \in Send(c0, c, "GameCancelled")}

\* the select around handle_game_message on broadcast_receiver.recv: on
\* GameCancelled the session tells its client and returns; any other
\* message is taken from the channel and the arm is disabled
recv_in_prompt(c0, c) ==
    LET c1 == [c0 EXCEPT !.broadcast[c] = Tail(@)] IN
    IF Head(c0.broadcast[c]) = "GameCancelled"
    THEN Cancelled(c1, c)
    ELSE {[c1 EXCEPT !.deaf[c] = TRUE, !.lost[c] = @ + 1]}

\* the second loop on rx.recv: handle_game_message sends the choices to the
\* client and waits for its responses; with no frame to read, the select
\* around it comes to a broadcast that is there already
MainPrompt(c) ==
    /\ conn.stage[c] = "Main"
    /\ conn.rx[c] # << >>
    /\ \E next \in Send([conn EXCEPT !.rx[c] = << >>,
                                     !.stage[c] = "Prompt",
                                     !.deaf[c] = FALSE,
                                     !.prompt[c] = conn.rx[c][1]],
                        c, conn.rx[c][1]) :
          IF \/ next.stage[c] # "Prompt"
             \/ next.wire[c] # << >>
             \/ next.broadcast[c] = << >>
          THEN conn' = next
          ELSE conn' \in recv_in_prompt(next, c)
    /\ UNCHANGED ServerVars

\* that select on a broadcast that arrives while the session waits
PromptBroadcast(c) ==
    /\ conn.stage[c] = "Prompt"
    /\ ~conn.deaf[c]
    /\ conn.broadcast[c] # << >>
    /\ conn' \in recv_in_prompt(conn, c)
    /\ UNCHANGED ServerVars

\* handle_client_response and handle_timed_client_response on a frame of
\* the client: the stream has ended after a Close, an accepted response
\* goes to the game task, any other is dropped
PromptFrame(c) ==
    /\ conn.stage[c] = "Prompt"
    /\ conn.wire[c] # << >>
    /\ LET f == Head(conn.wire[c])
           c1 == Read(conn, c, "None")
       IN IF f.kind = "Close"
          THEN conn' = Failed(c1, c)
          ELSE IF Accepts(conn.prompt[c], f.kind)
          THEN /\ Dropped(conn) \/ HasRoom(conn.response[c])
               /\ conn' = forward([c1 EXCEPT !.frame[c].forwarded = TRUE],
                                   c, f.kind)
          ELSE conn' = c1
    /\ UNCHANGED ServerVars

\* handle_timed_client_response at its deadline: the Pass is forwarded
PromptTimeout(c) ==
    /\ conn.stage[c] = "Prompt"
    /\ conn.prompt[c] = "ChallengeChoice"
    /\ Dropped(conn) \/ HasRoom(conn.response[c])
    /\ conn' = forward(conn, c, "Pass")
    /\ UNCHANGED ServerVars

\* the End arm of the second loop after the End is sent: todo!() aborts the
\* task of the session
End_todo(c0, c) ==
    IF c0.stage[c] = "Disconnected" THEN c0
    ELSE [c0 EXCEPT !.stage[c] = "Aborted"]

\* the second loop on broadcast_receiver.recv
MainBroadcast(c) ==
    /\ conn.stage[c] = "Main"
    /\ conn.broadcast[c] # << >>
    /\ LET message == Head(conn.broadcast[c])
           c1 == [conn EXCEPT !.broadcast[c] = Tail(@)]
       IN CASE message = "End" ->
                 conn' \in {End_todo(next, c) : next \in Send(c1, c, "End")}
            [] message = "Outcome" -> conn' \in Send(c1, c, "Outcome")
            [] message = "GameCancelled" -> conn' \in Cancelled(c1, c)
    /\ UNCHANGED ServerVars

\* coup_game at the top of its loop on Wait: the Info of every seat
GameWait(max_rounds) ==
    /\ conn.game = "Loop"
    /\ conn.rounds < max_rounds
    /\ conn' = [conn EXCEPT !.game = "Info", !.to_info = conn.players]
    /\ UNCHANGED ServerVars

\* one channels.info.send of that loop; the task returns Err when the
\* session has dropped the receiver
GameInfo_send ==
    /\ conn.game = "Info"
    /\ LET c == Head(conn.to_info) IN
       IF Gone(conn, c)
       THEN conn' = [conn EXCEPT !.game = "Failed", !.to_info = << >>]
       ELSE /\ HasRoom(conn.info[c])
            /\ conn' = [conn EXCEPT
                           !.info[c] = << "Info" >>,
                           !.to_info = Tail(@),
                           !.game = IF Tail(conn.to_info) = << >>
                                    THEN "Wait" ELSE @]
    /\ UNCHANGED ServerVars

\* a handler of the game task sends a seat its choices and waits for the
\* response
GamePrompt ==
    /\ conn.game = "Wait"
    /\ \E c \in Range(conn.players),
          prompt \in {"ActionChoices", "ChallengeChoice"} :
          IF Gone(conn, c)
          THEN conn' = [conn EXCEPT !.game = "Failed"]
          ELSE /\ HasRoom(conn.rx[c])
               /\ conn' = [conn EXCEPT !.rx[c] = << prompt >>,
                                       !.asked = c,
                                       !.game = "Await"]
    /\ UNCHANGED ServerVars

\* the response arrives, the Outcome is broadcast and the game advances
GameOutcome ==
    /\ conn.game = "Await"
    /\ conn.response[conn.asked] # << >>
    /\ conn' = [conn EXCEPT
                   !.response[conn.asked] = << >>,
                   !.broadcast = Broadcast(conn, conn.playing, "Outcome"),
                   !.asked = 0,
                   !.rounds = @ + 1,
                   !.game = "Loop"]
    /\ UNCHANGED ServerVars

\* coup_game at the top of its loop on End: the summary is broadcast and
\* the task returns
GameEnd ==
    /\ conn.game = "Loop"
    /\ conn.rounds >= 1
    /\ conn' = [conn EXCEPT
                   !.broadcast = Broadcast(conn, conn.playing, "End"),
                   !.game = "Done"]
    /\ UNCHANGED ServerVars

NextConn ==
    \/ \E c \in Clients : Connect(c)
    \/ Dispatch
    \/ DispatchDisconnected
    \/ \E c \in Clients : SendGameId(c)
    \/ \E c \in Clients : ClientSend(c)
    \/ \E c \in Clients : ClientClose(c)
    \/ \E c \in Clients : LobbyFrame(c)
    \/ \E c \in Clients : Seated(c)
    \/ \E c \in Clients : MainFrame(c)
    \/ \E c \in Clients : MainInfo(c)
    \/ \E c \in Clients : MainPrompt(c)
    \/ \E c \in Clients : PromptFrame(c)
    \/ \E c \in Clients : PromptTimeout(c)
    \/ \E c \in Clients : PromptBroadcast(c)
    \/ \E c \in Clients : MainBroadcast(c)
    \/ GameWait(MaxRounds)
    \/ GameInfo_send
    \/ GamePrompt
    \/ GameOutcome
    \/ GameEnd

SpecConn == Init /\ [][NextConn]_vars

\* The tasks of the server are scheduled: a step of the dispatcher, of a
\* session or of the game task that can be taken is taken in the end.  The
\* clients owe nothing.
ServerStep ==
    \/ Dispatch
    \/ DispatchDisconnected
    \/ GameWait(MaxRounds)
    \/ GameInfo_send
    \/ GamePrompt
    \/ GameOutcome
    \/ GameEnd
    \/ \E c \in Clients :
          \/ SendGameId(c)
          \/ LobbyFrame(c)
          \/ Seated(c)
          \/ MainFrame(c)
          \/ MainInfo(c)
          \/ MainPrompt(c)
          \/ PromptFrame(c)
          \/ PromptTimeout(c)
          \/ PromptBroadcast(c)
          \/ MainBroadcast(c)

FairConn == SpecConn /\ WF_vars(ServerStep)

\* Clients that send nothing: the prompts end at their deadlines, and the
\* game goes on for more rounds.
NextRounds ==
    \/ \E c \in Clients : Connect(c)
    \/ Dispatch
    \/ \E c \in Clients : SendGameId(c)
    \/ \E c \in Clients : Seated(c)
    \/ \E c \in Clients : MainInfo(c)
    \/ \E c \in Clients : MainPrompt(c)
    \/ \E c \in Clients : PromptTimeout(c)
    \/ \E c \in Clients : MainBroadcast(c)
    \/ GameWait(MaxSilentRounds)
    \/ GameInfo_send
    \/ GamePrompt
    \/ GameOutcome
    \/ GameEnd

SpecRounds == Init /\ [][NextRounds]_vars

\* The dispatcher alone: sockets register, sessions that know their game id
\* fail, and the dispatcher serves its two channels.
NextDispatch ==
    \/ \E c \in Sockets : Connect(c)
    \/ Dispatch
    \/ \E c \in Sockets : SessionErr(c)
    \/ DispatchDisconnected

SpecDispatch == Init /\ [][NextDispatch]_vars

\* ------------------------------------------------------------- properties

RECURSIVE SumCoins(_, _)
SumCoins(players, ids) ==
    IF ids = {} THEN 0
    ELSE LET id == CHOOSE x \in ids : TRUE
         IN players[id].coins + SumCoins(players, ids \ {id})

\* cards of alive hands not yet revealed, and cards revealed by alive and
\* dead seats
Unrevealed ==
    Cardinality({id \in DOMAIN alive : alive[id].hand.kind = "Full"}) * 2
    + Cardinality({id \in DOMAIN alive : alive[id].hand.kind = "Last"})

Revealed ==
    Cardinality({id \in DOMAIN alive : alive[id].hand.kind = "Last"})
    + 2 * Cardinality(DOMAIN dead)

CardsHeld == BagSize(deck) + Unrevealed + Revealed

ExchangePhases == {"ChooseOneFromThree", "ChooseTwoFromFour"}

\* C1: in every reachable state the treasury plus the coins of the alive
\* seats is 50; the coins of an eliminated seat went to the treasury.
CoinConservation == coins + SumCoins(alive, DOMAIN alive) = STARTING_COINS

\* a seat has been eliminated after coins were withdrawn, spent and stolen
CoinConservationWitness ==
    /\ DOMAIN dead # {}
    /\ coins > CoinPile_with_count(Len(seating))
    /\ \E id \in DOMAIN alive : alive[id].coins # 2

\* C2 as stated: deck + unrevealed cards + revealed cards is 15 in every
\* reachable state, the two Exchange choice phases included.
CardConservation == CardsHeld = DECK_SIZE

\* C2: outside the two Exchange choice phases deck + unrevealed cards +
\* revealed cards is 15; inside them it is 13, the two cards drawn from the
\* deck being held in the choices of the phase next to the actor's own.
CardConservationOutsideExchange ==
    IF phase \in ExchangePhases
    THEN /\ CardsHeld = DECK_SIZE - 2
         /\ state.actor \in DOMAIN alive
         /\ Len(state.choices) =
               2 + (IF alive[state.actor].hand.kind = "Full" THEN 2 ELSE 1)
    ELSE CardsHeld = DECK_SIZE

\* an Exchange has drawn its two cards and the actor has yet to choose
CardConservationWitness ==
    /\ phase \in ExchangePhases
    /\ BagSize(deck) = DECK_SIZE - 2 * Len(seating) - 2

\* C3 as stated: no engine method aborts while only offered actions,
\* challenges, blocks and card choices are played.
NoAbort == ~panicked

\* C4: the phase is End exactly when one seat is alive, some seat is alive
\* in every state, and the Summary names the one alive seat.
WinCondition ==
    /\ (phase = "End") <=> (Cardinality(DOMAIN alive) = 1)
    /\ Cardinality(DOMAIN alive) >= 1
    /\ phase = "End" => DOMAIN alive = {summary(Game)}

\* the game has ended with every seat but the winner eliminated
WinConditionWitness ==
    /\ phase = "End"
    /\ Cardinality(DOMAIN dead) = Len(seating) - 1
    /\ summary(Game) \in DOMAIN alive

\* C5 as stated: the current actor is an alive seat exactly when the phase
\* is not End.
CurrentActorAliveIffNotEnd == (current_player \in DOMAIN alive) <=> (phase # "End")

\* C5: the current actor is an alive seat in every reachable state, End
\* included, where it is the winner.
CurrentActorAlive ==
    /\ current_player \in DOMAIN alive
    /\ phase = "End" => current_player = summary(Game)

\* the game ended by eliminating the seat whose turn it was
CurrentActorAliveWitness ==
    /\ phase = "End"
    /\ current_player \in DOMAIN alive
    /\ Len(seating) = 2
    /\ seating[2] \in DOMAIN dead
    /\ turns = 2

\* the place of a seat in the initial seating, and the nearest seat of the
\* set al clockwise (counter-clockwise) from place k
Pos(id) == CHOOSE k \in DOMAIN seating : seating[k] = id

RECURSIVE NearestClockwise(_, _)
NearestClockwise(k, al) ==
    LET k1 == (k % Len(seating)) + 1
    IN IF seating[k1] \in al THEN seating[k1] ELSE NearestClockwise(k1, al)

RECURSIVE NearestCounterClockwise(_, _)
NearestCounterClockwise(k, al) ==
    LET k1 == IF k = 1 THEN Len(seating) ELSE k - 1
    IN IF seating[k1] \in al THEN seating[k1] ELSE NearestCounterClockwise(k1, al)

\* C6: the turn ring holds exactly the alive seats, each linked to the
\* nearest alive seat clockwise and counter-clockwise in the initial
\* seating, and ending a turn moves the cursor from X to the nearest alive
\* seat clockwise from X.
TurnRing ==
    /\ DOMAIN order = DOMAIN alive
    /\ DOMAIN order \cap DOMAIN dead = {}
    /\ \A id \in DOMAIN order :
         /\ order[id].next = NearestClockwise(Pos(id), DOMAIN alive)
         /\ order[id].prev = NearestCounterClockwise(Pos(id), DOMAIN alive)
    /\ CurrentPlayer_end_turn(Game).current_player =
          NearestClockwise(Pos(current_player), DOMAIN alive)

\* a seat has been eliminated and its neighbour's link skips it
TurnRingWitness ==
    /\ Cardinality(DOMAIN alive) >= 2
    /\ \E id \in DOMAIN alive :
         /\ seating[(Pos(id) % Len(seating)) + 1] \in DOMAIN dead
         /\ order[id].next # seating[(Pos(id) % Len(seating)) + 1]

\* C7 as stated: when the eliminated seat is the current actor and the game
\* goes on, the current actor of the next Wait is the nearest alive seat
\* clockwise from the eliminated seat.
CurrentActorEliminated ==
    [][(/\ current_player \in DOMAIN alive
        /\ current_player \notin DOMAIN alive'
        /\ phase' = "Wait")
       => current_player' = NearestClockwise(Pos(current_player), DOMAIN alive')]_vars

\* the seat a challenge makes lose influence, read from the hands
ChallengeLoser ==
    IF Hand_has_card(alive[state.actor].hand, ClaimOf(state.kind, state.claim))
    THEN state.challenger
    ELSE state.actor

\* C8: a resolved challenge makes the challenged seat lose influence when
\* it does not hold the claimed card and the challenger otherwise, and
\* Challenge.outcome announces the seat that Challenge.advance picks: a seat
\* with two cards is sent to choose one, a seat with one card is eliminated.
ChallengeResolution ==
    [][(phase = "Challenge" /\ ~panicked /\ ~panicked')
       => /\ Challenge_outcome(Game).kind = "LosesInfluence"
          /\ Challenge_outcome(Game).victim = ChallengeLoser
          /\ IF alive[ChallengeLoser].hand.kind = "Full"
             THEN /\ phase' = "ChooseVictimCard"
                  /\ state'.victim = ChallengeLoser
                  /\ alive' = alive
             ELSE /\ ChallengeLoser \in DOMAIN dead'
                  /\ DOMAIN alive' = DOMAIN alive \ {ChallengeLoser}]_vars

\* a defended challenge has sent the challenger to choose a card
ChallengeResolutionWitness ==
    /\ phase = "ChooseVictimCard"
    /\ played.defended
    /\ state.victim # played.actor

\* the challenge being resolved, or just resolved, was defended
Defended ==
    \/ played.defended
    \/ phase = "Challenge" /\ has_card(Game, state.actor, ClaimOf(state.kind, state.claim))

\* C9 as stated: when a challenged Tax is defended, the actor holds 3 coins
\* more when the game next reaches Wait or End than when Tax was played,
\* and the treasury 3 fewer unless a seat's coins were returned to it.
DefendedTaxProceeds ==
    [][(/\ played.kind = "Tax"
        /\ phase \in {"Challenge", "ChooseVictimCard"}
        /\ Defended
        /\ ~panicked'
        /\ phase' \in {"Wait", "End"})
       => /\ alive'[played.actor].coins = played.coins + 3
          /\ DOMAIN alive' = DOMAIN alive => coins' = played.pile - 3]_vars

\* C10 as stated: when the challenged seat holds the claimed card, the card
\* is returned to the deck and a replacement is drawn, the deck keeping its
\* size.
DefenceReplacesCard ==
    [][(/\ phase = "Challenge"
        /\ ~panicked /\ ~panicked'
        /\ has_card(Game, state.actor, ClaimOf(state.kind, state.claim)))
       => /\ "return_cards" \in Range(deck_ops')
          /\ BagSize(deck') = BagSize(deck)]_vars

\* every alive seat other than those of the set keeps its coins
CoinsKeptBut(ids) ==
    \A id \in DOMAIN alive \ ids :
        id \in DOMAIN alive' /\ alive'[id].coins = alive[id].coins

\* every alive seat stays alive with the hand it has
HandsKept ==
    /\ DOMAIN alive' = DOMAIN alive
    /\ \A id \in DOMAIN alive : alive'[id].hand = alive[id].hand

\* C11: Block.advance annuls the action.  For ForeignAid and Steal no seat's
\* coins and not the treasury change; for Assassinate 3 coins move from the
\* actor to the treasury, announced as LoseCoins{actor, 3}; no hand
\* changes, the victim keeps its influence, and the game is at Wait with
\* the next alive seat as current actor.
BlockResolution ==
    [][(phase = "Block" /\ phase' # "Challenge" /\ ~panicked /\ ~panicked')
       => /\ phase' = "Wait"
          /\ HandsKept
          /\ dead' = dead
          /\ deck' = deck
          /\ current_player' = NearestClockwise(Pos(current_player), DOMAIN alive)
          /\ IF state.kind = "Assassinate"
             THEN /\ alive'[state.actor].coins = alive[state.actor].coins - 3
                  /\ coins' = coins + 3
                  /\ CoinsKeptBut({state.actor})
                  /\ Block_outcome(Game) =
                        [kind |-> "LoseCoins", actor |-> state.actor, amount |-> 3]
             ELSE /\ coins' = coins
                  /\ CoinsKeptBut({})
                  /\ Block_outcome(Game).kind = "LoseTurn"]_vars

\* a blocked assassination has ended the turn
BlockResolutionWitness ==
    /\ phase = "Wait"
    /\ played.kind = "Assassinate"
    /\ played.ended = "Block"
    /\ played.victim \in DOMAIN alive

\* C12 as stated: once Assassinate has been played, the actor holds 3 coins
\* fewer when the game next reaches Wait or End, whether every seat passed,
\* the victim blocked or a seat challenged.
AssassinationPaidOnDeclaration ==
    [][(/\ played.kind = "Assassinate"
        /\ phase \notin {"Wait", "End"}
        /\ phase' \in {"Wait", "End"}
        /\ ~panicked'
        /\ played.actor \in DOMAIN alive')
       => alive'[played.actor].coins = played.coins - 3]_vars

\* C13: Coup{victim} played from Wait leads to Safe, which no block and no
\* challenge leaves; advancing moves exactly 7 coins from the actor to the
\* treasury and the victim loses influence: with two cards it is sent to
\* ChooseVictimCard, with one card it is eliminated.
CoupResolution ==
    [][/\ (phase = "Wait" /\ played'.kind = "Coup" /\ played'.ended = "None")
          => phase' = "Safe" /\ state'.kind = "Coup"
       /\ (phase = "Safe" /\ state.kind = "Coup" /\ ~panicked)
          => /\ ~panicked'
             /\ phase' \notin {"Challenge", "Block"}
             /\ alive'[state.actor].coins = alive[state.actor].coins - 7
             /\ CoinsKeptBut({state.actor, state.victim})
             /\ Safe_outcome(Game) = [kind |-> "LosesInfluence", victim |-> state.victim]
             /\ IF alive[state.victim].hand.kind = "Full"
                THEN /\ phase' = "ChooseVictimCard"
                     /\ state'.victim = state.victim
                     /\ coins' = coins + 7
                     /\ alive'[state.victim] = alive[state.victim]
                ELSE /\ state.victim \in DOMAIN dead' \ DOMAIN alive'
                     /\ coins' = coins + 7 + alive[state.victim].coins
                     /\ phase' \in {"Wait", "End"}]_vars

\* a Coup has eliminated a seat on its last card
CoupResolutionWitness ==
    /\ played.kind = "Coup"
    /\ played.ended = "Safe"
    /\ played.victim \in DOMAIN dead

\* C14 as stated: whenever the current actor holds 10 or more coins at
\* Wait, only Coup actions are offered.
ForcedCoup ==
    (phase = "Wait" /\ alive[current_player].coins >= 10)
        => \A action \in possible_actions : action.kind = "Coup"

Seats == 1..Len(seating)

\* C15: at Wait for an actor with fewer than 10 coins, Income, ForeignAid,
\* Tax and Exchange are offered; Assassinate{v} is offered iff the actor has
\* at least 3 coins and Coup{v} iff it has at least 7, for exactly each alive
\* seat v other than the actor; every offered action has the current actor
\* as its actor and targets no dead seat and not the actor.
ActionThresholds ==
    (phase = "Wait" /\ alive[current_player].coins < 10)
        => /\ \A kind \in {"Income", "ForeignAid", "Tax", "Exchange"} :
                Action(current_player, kind, 0) \in possible_actions
           /\ \A v \in Seats :
                /\ Action(current_player, "Assassinate", v) \in possible_actions
                     <=> /\ alive[current_player].coins >= 3
                         /\ v \in DOMAIN alive \ {current_player}
                /\ Action(current_player, "Coup", v) \in possible_actions
                     <=> /\ alive[current_player].coins >= 7
                         /\ v \in DOMAIN alive \ {current_player}
           /\ \A action \in possible_actions :
                /\ action.actor = current_player
                /\ action.kind \in {"Assassinate", "Coup", "Steal"}
                     => action.victim \in DOMAIN alive \ {current_player}
                /\ action.kind \in {"Income", "ForeignAid", "Tax", "Exchange"}
                     => action.victim = 0

\* an actor that can pay a Coup is offered its actions after a seat died
ActionThresholdsWitness ==
    /\ phase = "Wait"
    /\ DOMAIN dead # {}
    /\ Cardinality(DOMAIN alive) >= 2
    /\ alive[current_player].coins \in 7..9
    /\ \E action \in possible_actions : action.kind = "Coup"

Min(a, b) == IF a < b THEN a ELSE b

\* C16 as stated: Steal{v} is offered against exactly each other alive seat
\* v holding at least 1 coin, and a steal that resolves moves min(2, v's
\* coins) from v to the actor, announced as LoseCoins on the victim.
StealUpToTwo ==
    [][/\ (phase' = "Wait" /\ ~panicked')
          => \A v \in Seats :
                Action(current_player', "Steal", v) \in possible_actions'
                  <=> /\ v \in DOMAIN alive' \ {current_player'}
                      /\ alive'[v].coins >= 1
       /\ (phase = "Reactable" /\ state.kind = "Steal" /\ phase' = "Wait" /\ ~panicked')
          => /\ alive'[state.victim].coins =
                   alive[state.victim].coins - Min(2, alive[state.victim].coins)
             /\ alive'[state.actor].coins =
                   alive[state.actor].coins + Min(2, alive[state.victim].coins)
             /\ Reactable_outcome(Game).kind = "LoseCoins"
             /\ Reactable_outcome(Game).actor = state.victim]_vars

\* C17: a seat that loses influence with two cards enters ChooseVictimCard
\* with exactly its two cards as choices and afterwards is alive with one of
\* them revealed and the other in hand; a seat that loses influence with one
\* card is eliminated once, both its cards revealed and its coins in the
\* treasury; a revealed card and a dead seat never change afterwards.
InfluenceLoss ==
    [][~panicked' =>
       /\ (phase' = "ChooseVictimCard" /\ phase # "ChooseVictimCard")
          => /\ state'.victim \in DOMAIN alive'
             /\ alive'[state'.victim].hand.kind = "Full"
             /\ state'.choices = << alive'[state'.victim].hand.c1,
                                    alive'[state'.victim].hand.c2 >>
             /\ alive'[state'.victim].hand = alive[state'.victim].hand
       /\ phase = "ChooseVictimCard"
          => /\ phase' = "Wait"
             /\ DOMAIN alive' = DOMAIN alive
             /\ \E i \in 1..2 :
                   alive'[state.victim] =
                     [coins |-> alive[state.victim].coins,
                      hand |-> Last(state.choices[3 - i], state.choices[i])]
             /\ \A id \in DOMAIN alive \ {state.victim} : alive'[id] = alive[id]
       /\ Cardinality(DOMAIN alive \ DOMAIN alive') <= 1
       /\ \A id \in DOMAIN alive \ DOMAIN alive' :
             /\ alive[id].hand.kind = "Last"
             /\ id \notin DOMAIN dead
             /\ id \in DOMAIN dead'
             /\ dead'[id] = << alive[id].hand.c1, alive[id].hand.c2 >>
             /\ coins' + SumCoins(alive', DOMAIN alive')
                   = coins + SumCoins(alive, DOMAIN alive)
             /\ coins' >= coins + alive[id].coins
             /\ \A s \in DOMAIN alive' : alive'[s].coins <= alive[s].coins
       /\ \A id \in DOMAIN dead :
             id \in DOMAIN dead' /\ dead'[id] = dead[id] /\ id \notin DOMAIN alive'
       /\ DOMAIN alive' \subseteq DOMAIN alive
       /\ \A id \in DOMAIN alive \cap DOMAIN alive' :
             alive[id].hand.kind = "Last"
                => /\ alive'[id].hand.kind = "Last"
                   /\ alive'[id].hand.c2 = alive[id].hand.c2]_vars

\* an assassination has eliminated a seat on its last card
InfluenceLossWitness ==
    /\ played.kind = "Assassinate"
    /\ played.ended = "Reactable"
    /\ played.victim \in DOMAIN dead

\* the cards offered to the exchanging seat are the two drawn cards followed
\* by its unrevealed cards, and the two drawn cards are missing from the deck
ExchangeOffer ==
    phase \in ExchangePhases =>
        LET hand == alive[state.actor].hand IN
        /\ state.actor = current_player
        /\ BagSize(deck) = DECK_SIZE - 2 * Len(seating) - 2
        /\ IF hand.kind = "Full"
           THEN /\ phase = "ChooseTwoFromFour"
                /\ Len(state.choices) = 4
                /\ state.choices[3] = hand.c1
                /\ state.choices[4] = hand.c2
           ELSE /\ phase = "ChooseOneFromThree"
                /\ Len(state.choices) = 3
                /\ state.choices[3] = hand.c1

\* the game g is the exchange by seat a settled with the cards kept: the
\* turn is over, the cards not kept are back in the deck, which has its size
\* of before the draw, and nothing else about the seats changed
ExchangeSettled(g, a, hand, returned) ==
    /\ ~g.panicked
    /\ g.phase = "Wait"
    /\ g.alive = [alive EXCEPT ![a].hand = hand]
    /\ g.dead = dead
    /\ g.coins = coins
    /\ g.deck = [c \in Card |-> deck[c] + BagOfSeq(returned)[c]]
    /\ BagSize(g.deck) = DECK_SIZE - 2 * Len(seating)

\* every selection the exchanging seat can make from the offered cards
\* leaves it with exactly the selected cards
ExchangeSelection ==
    /\ In("ChooseTwoFromFour") =>
          \A i, j \in DOMAIN state.choices :
             i # j =>
               ExchangeSettled(
                   ChooseTwoFromFour_advance(Start, state.choices[i], state.choices[j]),
                   state.actor, Full(state.choices[i], state.choices[j]),
                   AllBut(state.choices, {i, j}, 1))
    /\ In("ChooseOneFromThree") =>
          \A i \in DOMAIN state.choices :
             ExchangeSettled(
                 ChooseOneFromThree_advance(Start, state.choices[i]),
                 state.actor,
                 Last(state.choices[i], alive[state.actor].hand.c2),
                 AllBut(state.choices, {i}, 1))

\* the draw of an unchallenged Exchange takes two cards from the deck and
\* touches no seat; the selection step ends the turn
ExchangeStep ==
    /\ (phase = "OnlyChallengeable" /\ phase' \in ExchangePhases) =>
          /\ state.kind = "Exchange"
          /\ state'.actor = state.actor
          /\ deck = [c \in Card |-> deck'[c] + BagOfSeq(SubSeq(state'.choices, 1, 2))[c]]
          /\ alive' = alive /\ dead' = dead /\ coins' = coins
    /\ (phase \in ExchangePhases /\ phase' # phase) =>
          /\ phase' = "Wait"
          /\ BagSize(deck') = BagSize(deck) + 2

\* C18: an unchallenged Exchange draws two cards and offers them together
\* with the actor's unrevealed cards (four cards for a full hand, three for
\* a last card); after the selection the actor's unrevealed hand is exactly
\* the selected cards, the cards not selected are back in the deck, the
\* deck has the size it had before the Exchange and a revealed card is
\* unchanged.
ExchangeResolution ==
    [](ExchangeOffer /\ ExchangeSelection) /\ [][ExchangeStep]_vars

ExchangeResolutionWitness ==
    /\ played.kind = "Exchange"
    /\ played.ended = "ChooseTwoFromFour"
    /\ phase = "Wait"
    /\ ~played.challenged
    /\ alive[played.actor].hand.kind = "Full"
    /\ alive[played.actor].hand.c1 = alive[played.actor].hand.c2

\* the two cards can be assigned to distinct positions of the presented cards
SubMultiset(cards, choices) ==
    \E i, j \in DOMAIN choices :
        i # j /\ choices[i] = cards[1] /\ choices[j] = cards[2]

\* the session accepts exactly the selections that are sub-multisets of the
\* presented cards, and the engine finds positions for exactly those
SelectionAccepted ==
    /\ handle_choose_two(<< "Duke", "Duke", "Ambassador", "Captain" >>,
            [kind |-> "ExchangeTwo", cards |-> << "Duke", "Duke" >>]).ok
    /\ ~handle_choose_two(<< "Duke", "Ambassador", "Captain", "Contessa" >>,
            [kind |-> "ExchangeTwo", cards |-> << "Duke", "Duke" >>]).ok
    /\ session.prompt # << >> =>
          \A a, b \in Card :
             /\ handle_choose_two(session.prompt,
                     [kind |-> "ExchangeTwo", cards |-> << a, b >>]).ok
                  <=> SubMultiset(<< a, b >>, session.prompt)
             /\ In("ChooseTwoFromFour") =>
                  (ChooseTwoFromFour_advance(Start, a, b).panicked
                     <=> ~SubMultiset(<< a, b >>, state.choices))

\* only an accepted selection is on its way to the engine
SelectionReachesEngine ==
    session.choose_two # << >> =>
        /\ phase = "ChooseTwoFromFour"
        /\ SubMultiset(session.choose_two[1], state.choices)

\* the session answers a rejected selection with InvalidResponse
SelectionRejected ==
    (/\ session.prompt # << >>
     /\ session' # session
     /\ session'.response.kind = "ExchangeTwo"
     /\ ~SubMultiset(session'.response.cards, session.prompt))
    => /\ session'.to_client = "InvalidResponse"
       /\ session'.choose_two = << >>
       /\ session'.prompt = session.prompt

\* C19: a two-card selection is accepted exactly when it is a sub-multiset
\* of the four presented cards ([Duke, Duke] is accepted from [Duke, Duke,
\* Ambassador, Captain] and rejected from [Duke, Ambassador, Captain,
\* Contessa]); a rejected selection is answered with InvalidResponse and
\* never reaches ChooseTwoFromFour.advance.
ExchangeSelectionChecked ==
    [](SelectionAccepted /\ SelectionReachesEngine) /\ [][SelectionRejected]_vars

\* the phases an engine method can hand the game to, per phase, as the
\* phase tree lists them
TreeEdges ==
    [Wait |-> {"Safe", "OnlyChallengeable", "OnlyBlockable", "Reactable"},
     Safe |-> {"Wait", "End"},
     OnlyChallengeable |-> {"Challenge", "Wait", "End",
                            "ChooseOneFromThree", "ChooseTwoFromFour"},
     OnlyBlockable |-> {"Block", "Wait"},
     Reactable |-> {"Challenge", "Block", "ChooseVictimCard", "Wait", "End"},
     Block |-> {"Challenge", "Wait"},
     Challenge |-> {"Wait", "ChooseVictimCard", "End"},
     ChooseVictimCard |-> {"Wait"},
     ChooseOneFromThree |-> {"Wait"},
     ChooseTwoFromFour |-> {"Wait"},
     End |-> {}]

\* the tree with the edge a Coup on a seat with two cards takes
CodeEdges == [TreeEdges EXCEPT !.Safe = @ \cup {"ChooseVictimCard"}]

\* a method of the engine returned: the game is in the phase it returned
MethodReturned == ~panicked' /\ (turns' # turns \/ played' # played \/ phase' # phase)

MaxNames == 8

\* the game g is a fresh game of n seats seated as ids
FreshGame(g, n, ids) ==
    /\ g.phase = "Wait"
    /\ ~g.panicked
    /\ g.coins = STARTING_COINS - 2 * n
    /\ DOMAIN g.alive = 1..n
    /\ g.dead = << >>
    /\ \A id \in 1..n : g.alive[id].coins = 2 /\ g.alive[id].hand.kind = "Full"
    /\ BagSize(g.deck) = DECK_SIZE - 2 * n
    /\ g.current_player = ids[1]

\* C21: a new game of n seats, 2 <= n <= 6, starts in Wait with a treasury
\* of 50 - 2n, every seat alive with 2 coins and two cards, a deck of
\* 15 - 2n cards and the first seat of the turn order as current actor; a
\* list of fewer than 2 or more than 6 names is rejected.
InitialState ==
    /\ turns = 0 => FreshGame(Game, Len(seating), seating)
    /\ \A n \in 2..MAX_PLAYER_COUNT, seed \in 1..MaxSeeds :
          FreshGame(NewGame(n, seed, ShuffledIds(seed, n)), n, ShuffledIds(seed, n))
    /\ \A k \in 0..MaxNames :
          RawPlayers_with_names(k).ok <=> (2 <= k /\ k <= MAX_PLAYER_COUNT)

InitialStateWitness ==
    /\ turns = 0
    /\ Len(seating) = 2
    /\ coins = 46
    /\ BagSize(deck) = 11
    /\ DOMAIN alive = {1, 2}
    /\ current_player = seating[1]

\* the Income in the Safe phase is advanced and pays the actor one coin of
\* the treasury, whatever else the step does
IncomePaid ==
    /\ ~panicked'
    /\ phase' = "Wait"
    /\ alive'[state.actor].coins = alive[state.actor].coins + 1
    /\ coins' = coins - 1
    /\ CoinsKeptBut({state.actor})
    /\ HandsKept
    /\ dead' = dead
    /\ deck' = deck
    /\ current_player' = NearestClockwise(Pos(state.actor), DOMAIN alive)
    /\ Safe_outcome(Game) = [kind |-> "GainCoins", actor |-> state.actor, amount |-> 1]

\* C22: Income played from Wait goes to Safe, and advancing returns to Wait
\* with the actor's coins increased by 1, the treasury decreased by 1,
\* every other seat's coins, all hands and the deck unchanged, and the
\* current actor moved to the next alive seat.
IncomeRound ==
    [][/\ (phase = "Wait" /\ played'.kind = "Income" /\ played'.ended = "None")
          => /\ phase' = "Safe" /\ state'.kind = "Income"
             /\ state'.actor = current_player
             /\ alive' = alive /\ coins' = coins /\ deck' = deck
       /\ (phase = "Safe" /\ state.kind = "Income" /\ ~panicked) => IncomePaid]_vars

\* the session forwards a block of seat id claiming card as a reaction to
\* the action in the Reactable phase
BlockOffered(id, card) ==
    /\ id \in DOMAIN PossibleReactions_all(Game)
    /\ \E r \in PossibleReactions_all(Game)[id] :
          r.kind = "Block" /\ Block_claim(r.react) = card
    /\ \E b \in possible_blocks(Game) :
          /\ Block_claim(b) = card
          /\ handle_reactions(PossibleReactions_all(Game)[id],
                              [kind |-> "React",
                               react |-> [kind |-> "Block", react |-> b]]).channel
               = "block"

\* C26: a ForeignAid block claims Duke, an Assassinate block claims
\* Contessa, and the victim of a Steal is offered two blocks, one claiming
\* Ambassador and one claiming Captain, both among the offered reactions
\* and accepted by the session.
BlockClaimMapping ==
    /\ In("OnlyBlockable") =>
          \A b \in possible_blocks(Game) : Block_claim(b) = "Duke"
    /\ (In("Reactable") /\ state.kind = "Assassinate") =>
          \A b \in possible_blocks(Game) : Block_claim(b) = "Contessa"
    /\ (In("Reactable") /\ state.kind = "Steal") =>
          /\ BlockOffered(state.victim, "Ambassador")
          /\ BlockOffered(state.victim, "Captain")

\* the hands of the kind of hand with other unrevealed cards
OtherHands(hand) ==
    IF hand.kind = "Full" THEN {Full(x, y) : x, y \in Card}
    ELSE {Last(x, hand.c2) : x \in Card}

\* C27: the Info delivered to seat p shows p's own hand and, for every
\* other seat, only name, coins and revealed cards; games that differ only
\* in the unrevealed cards of another seat or in the deck give p the same
\* Info.
InfoConfidential ==
    In("Wait") =>
        \A p \in DOMAIN alive :
            LET views == Info_for(Game, p).player_views IN
            /\ views[p] = [view |-> "Me", name |-> "", coins |-> alive[p].coins,
                           hand |-> alive[p].hand, revealed_cards |-> << >>]
            /\ \A q \in DOMAIN alive \ {p} :
                  /\ views[q] = [view |-> "Other", name |-> "",
                                 coins |-> alive[q].coins, hand |-> NoHand,
                                 revealed_cards |->
                                     IF alive[q].hand.kind = "Full" THEN << >>
                                     ELSE << alive[q].hand.c2 >>]
                  /\ \A h \in OtherHands(alive[q].hand) :
                        Info_for([Game EXCEPT !.alive[q].hand = h], p)
                          = Info_for(Game, p)
            /\ \A q \in DOMAIN dead : views[q].view = "Other"
            /\ \A c \in Card :
                  Info_for([Game EXCEPT !.deck = BagAdd(deck, c)], p) = Info_for(Game, p)

InfoConfidentialWitness ==
    /\ In("Wait")
    /\ turns > 0
    /\ \E p, q \in DOMAIN alive :
          p # q /\ alive[q].hand.kind = "Last" /\ alive[p].hand.kind = "Full"
          /\ alive[q].hand.c1 # alive[q].hand.c2

\* C23 (exclusive response): in every reaction window, however the seats'
\* responses interleave, the game task takes at most one challenge or block
\* off the channels and one of challenge, block or the advance on a
\* unanimous pass is applied to the engine, exactly one once the window is
\* decided and none while it is open; the record of the turn shows the one
\* that was applied.
ExclusiveResponse ==
    /\ net.nonpass <= 1
    /\ net.applied <= 1
    /\ net.pc \in Senders \cup Handlers => net.applied = 0 /\ net.nonpass = 0
    /\ net.window > 0 /\ net.pc \notin Senders \cup Handlers =>
          /\ net.applied = 1
          /\ net.nonpass = (IF net.taken.kind = "pass" THEN 0 ELSE 1)
          /\ ~panicked =>
                /\ played.challenged <=> net.taken.kind = "challenge"
                /\ played.blocked <=> net.taken.kind = "block"

\* a window decided by one seat's challenge while the challenge of another
\* seat waits in its channel
ExclusiveResponseWitness ==
    /\ net.applied = 1
    /\ net.pc \notin Senders \cup Handlers
    /\ net.taken.kind = "challenge"
    /\ \E id \in player_channels \ {net.taken.seat} :
          /\ net.challenge[id] # << >>
          /\ net.challenge[id][1].w = net.window

Forwarded(id, channel) ==
    /\ ChannelOf(net', id, channel) # ChannelOf(net, id, channel)
    /\ ChannelOf(net', id, channel) # << >>

\* C28 (session validation): on every prompt a session forwards to the game
\* task only a response of the variant the prompt expects with a value the
\* prompt offers (an offered action, a card of the offered pair, an offered
\* reaction, the offered challenge or block, or a pass on a timed prompt);
\* every other frame it reads is answered with InvalidResponse, nothing is
\* forwarded for it and the session stays on the same prompt.
SessionValidation ==
    /\ [](\A id \in player_channels :
             net.read[id].frame.kind # "None" =>
                /\ net.read[id].frame \notin Offered(net.prompt[id])
                /\ net.read[id].answer = "InvalidResponse"
                /\ net.prompt[id].kind # "None")
    /\ [][\A id \in player_channels :
             LET prompt == net.prompt[id] IN
             /\ Forwarded(id, "action") =>
                   /\ prompt.kind = "Actions"
                   /\ net'.action[id][1].value \in prompt.offered
             /\ Forwarded(id, "victim_card") =>
                   /\ prompt.kind = "Victim"
                   /\ net'.victim_card[id][1].value \in prompt.offered
             /\ Forwarded(id, "challenge") =>
                   \/ /\ prompt.kind = "Challenge"
                      /\ net'.challenge[id][1].value \in prompt.offered
                   \/ /\ prompt.kind = "Reactions"
                      /\ [kind |-> "Challenge", react |-> net'.challenge[id][1].value]
                            \in prompt.offered
             /\ Forwarded(id, "block") =>
                   \/ /\ prompt.kind = "Block"
                      /\ net'.block[id][1].value \in prompt.offered
                   \/ /\ prompt.kind = "Reactions"
                      /\ [kind |-> "Block", react |-> net'.block[id][1].value]
                            \in prompt.offered
             /\ Forwarded(id, "pass") => prompt.kind \in TimedPrompts
             /\ (\E channel \in {"action", "victim_card", "challenge", "block", "pass"} :
                    Forwarded(id, channel)) => net'.prompt[id].kind = "None"
       ]_vars

\* C29: for every client the GameId is the first message sent and the
\* PlayerId is sent before any Info, prompt or broadcast; every text frame
\* the client sent before it was seated is answered with NotReady and is
\* never forwarded to the game task.
LifecycleOrder ==
    \A c \in Clients :
        /\ conn.out[c] # << >> => conn.out[c][1] = "GameId"
        /\ \A i \in DOMAIN conn.out[c] :
              conn.out[c][i] \in SeatedMessages
                  => \E j \in 1..(i - 1) : conn.out[c][j] = "PlayerId"
        /\ (conn.frame[c].early /\ conn.frame[c].kind # "Close")
              => conn.frame[c].answer = "NotReady" /\ ~conn.frame[c].forwarded

\* C30: when the game task broadcasts End, every connected session sends
\* the End to its client and then closes the transport with a Close frame,
\* without aborting and without reporting a disconnect to the dispatcher.
CleanEnd ==
    \A c \in Clients :
        "End" \in Range(conn.out[c])
            => /\ conn.stage[c] # "Aborted"
               /\ conn.out[c][Len(conn.out[c])] = "Close"
               /\ c \notin conn.reported

\* every lobby the dispatcher has, live or finished
AllLobbies == DOMAIN conn.lobbies \cup DOMAIN conn.finished_games

LobbyOf(game_id) ==
    IF game_id \in DOMAIN conn.lobbies THEN conn.lobbies[game_id]
    ELSE conn.finished_games[game_id]

\* the dispatcher takes a registration in this step
Registers(c) ==
    /\ conn.register # << >>
    /\ Head(conn.register) = c
    /\ conn'.register = Tail(conn.register)

\* the registration of c went to the lobby that assign_to_lobby names
Assigned(c) ==
    LET game_id == conn'.game_id[c]
        open == Joinable(conn.lobbies)
    IN /\ game_id # 0
       /\ IF open = {} THEN game_id \notin AllLobbies ELSE game_id \in open
       /\ game_id \in DOMAIN conn'.lobbies

\* a started lobby has one game task, no pending seat, and every session of
\* it that is still there has its seat, no two the same
Started(game_id) ==
    /\ LobbyOf(game_id).spawned = 1
    /\ LobbyOf(game_id).channel_senders = << >>
    /\ \A c \in Sockets :
          conn.game_id[c] = game_id /\ conn.stage[c] # "Disconnected"
              => /\ conn.id[c] # 0
                 /\ \A k \in Sockets \ {c} :
                       conn.game_id[k] = game_id => conn.id[k] # conn.id[c]

\* C31: a registering session is appended to the first lobby that has not
\* started and has fewer than 6 pending seats, or to a new lobby when
\* there is none, and is told that lobby's game id; a lobby that reaches 2
\* pending seats starts at once: one game task is spawned, every pending
\* session receives one PlayerGameInfo with a PlayerId of its own, and a
\* started lobby takes no more seats.
Registration ==
    /\ [][\A c \in Sockets : Registers(c) => Assigned(c)]_vars
    /\ [](\A game_id \in AllLobbies :
             IF LobbyOf(game_id).handle = "None"
             THEN /\ Len(LobbyOf(game_id).channel_senders) < START_SEATS
                  /\ LobbyOf(game_id).spawned = 0
             ELSE Started(game_id))

\* the dispatcher takes a Disconnected for this game in this step
Notified(game_id) ==
    /\ conn.disconnected # << >>
    /\ Head(conn.disconnected) = game_id
    /\ conn'.disconnected = Tail(conn.disconnected)

\* the lobbies other than this one are as they were
OthersKept(game_id) ==
    /\ \A other \in DOMAIN conn.lobbies \ {game_id} :
          other \in DOMAIN conn'.lobbies
              /\ conn'.lobbies[other] = conn.lobbies[other]
    /\ \A other \in DOMAIN conn.finished_games \ {game_id} :
          other \in DOMAIN conn'.finished_games
              /\ conn'.finished_games[other] = conn.finished_games[other]
    /\ \A c \in Sockets :
          conn.game_id[c] # game_id => conn'.broadcast[c] = conn.broadcast[c]

\* C32: the first Disconnected for a game id takes the lobby out of the
\* live map, broadcasts GameCancelled once, aborts the game task if one
\* was spawned and records the lobby in finished_games; every later one
\* for that game id changes nothing of the dispatcher and broadcasts
\* nothing; the lobbies of other game ids are never touched.
IdempotentCancellation ==
    /\ [][\A game_id \in 1..MaxSockets :
            Notified(game_id) =>
                /\ OthersKept(game_id)
                /\ IF game_id \in DOMAIN conn.lobbies
                   THEN /\ game_id \notin DOMAIN conn'.lobbies
                        /\ game_id \in DOMAIN conn'.finished_games
                        /\ conn'.finished_games[game_id].cancelled = 1
                        /\ conn'.finished_games[game_id].handle =
                              (IF conn.lobbies[game_id].handle = "None"
                               THEN "None" ELSE "Aborted")
                   ELSE /\ conn'.lobbies = conn.lobbies
                        /\ conn'.finished_games = conn.finished_games
                        /\ conn'.broadcast = conn.broadcast]_vars
    /\ [](\A game_id \in AllLobbies :
             /\ LobbyOf(game_id).cancelled =
                   (IF game_id \in DOMAIN conn.lobbies THEN 0 ELSE 1)
             /\ game_id \notin DOMAIN conn.lobbies
                   \/ game_id \notin DOMAIN conn.finished_games)

\* both sessions of a game have reported, the dispatcher has taken both
\* notifications, and another lobby is waiting
IdempotentCancellationWitness ==
    /\ conn.disconnected = << >>
    /\ DOMAIN conn.lobbies # {}
    /\ \E game_id \in DOMAIN conn.finished_games :
          /\ conn.finished_games[game_id].handle = "Aborted"
          /\ Cardinality({c \in conn.reported : conn.game_id[c] = game_id}) >= 2

\* C33: when a session of a started game disconnects, every other
\* connected session of the game sends GameCancelled to its client and
\* ends, whatever it was doing when the cancellation was broadcast, and no
\* session fails while forwarding a response to the aborted game task.
CancellationReachesPeers ==
    /\ [](\A c \in Clients : conn.stage[c] # "Panicked")
    /\ \A c \in Clients :
          ("GameCancelled" \in Range(conn.broadcast[c]))
              ~> (/\ "GameCancelled" \in Range(conn.out[c])
                  /\ conn.stage[c] = "Disconnected")

\* C34: when the transport of a client closes while its session waits for
\* a seat, the session stops waiting, returns Disconnected and notifies the
\* dispatcher, and no game is started with that seat.
DisconnectWhileWaiting ==
    /\ [](\A c \in Clients :
             conn.closed[c] = "Seen"
                 => conn.stage[c] = "Disconnected" /\ c \in conn.reported)
    /\ [][\A c \in Clients :
             conn.closed[c] = "Seen" /\ conn.id[c] = 0 => conn'.id[c] = 0]_vars

\* the game task takes the block of this seat in this step
BlockConsumed(id) ==
    /\ net.pc \in {"handle_blockable", "handle_reactable"}
    /\ net.block[id] # << >>
    /\ net'.block[id] = << >>

\* C35: after a block is consumed in an OnlyBlockable or Reactable window
\* the game task opens a Block window, in which a Challenge prompt against
\* the blocker's claim goes to every alive seat but the blocker; the block
\* is applied only after all of them pass or the deadline expires.
BlockChallengeWindow ==
    [][\A id \in player_channels :
          BlockConsumed(id) =>
              /\ phase' = "Block"
              /\ net'.pc \in Handlers
              /\ Range(net'.to_send) = alive' \ {id}]_vars

\* a GameMessage put on the channel of seat id in this step
PromptSent(id) == net.inbox[id] = << >> /\ net'.inbox[id] # << >>

\* the prompts that have one target and the channel their response comes on
SingleTarget ==
    [handle_wait |-> "action", choose_victim_card |-> "victim_card",
     choose_one |-> "choose_one", choose_two |-> "choose_two"]

\* the seat a single-target prompt of the game task is for
TargetOf(pc) ==
    CASE pc = "handle_wait" -> current_player
      [] pc = "choose_victim_card" -> state.victim
      [] OTHER -> state.actor

\* the response channels of seat id
ResponseChannels(n, id) ==
    [channel \in {"action", "challenge", "block", "victim_card", "choose_one",
                  "choose_two", "pass"} |-> ChannelOf(n, id, channel)]

PromptTargetsStep ==
    /\ \A id \in player_channels :
          PromptSent(id) =>
              LET m == net'.inbox[id][1] IN
              /\ id \in DOMAIN alive
              /\ m.kind = "Actions" => id = current_player /\ phase = "Wait"
              /\ m.kind = "Victim" =>
                    /\ id = state.victim /\ phase = "ChooseVictimCard"
                    /\ alive[id].hand.kind = "Full"
              /\ m.kind = "ChooseOne" =>
                    id = state.actor /\ phase = "ChooseOneFromThree"
              /\ m.kind = "ChooseTwo" =>
                    id = state.actor /\ phase = "ChooseTwoFromFour"
              /\ m.kind \in TimedPrompts => id # state.actor
    /\ \A id \in player_channels :
          \A channel \in {"action", "victim_card", "choose_one", "choose_two"} :
              (ChannelOf(net, id, channel) # << >>
                  /\ ChannelOf(net', id, channel) = << >>) =>
                  /\ net.pc \in DOMAIN SingleTarget
                  /\ SingleTarget[net.pc] = channel
                  /\ id = TargetOf(net.pc)
    /\ (net.pc \in DOMAIN SingleTarget /\ net'.pc # net.pc) =>
          /\ ChannelOf(net, TargetOf(net.pc), SingleTarget[net.pc]) # << >>
          /\ \A id \in player_channels :
                ResponseChannels(net', id) =
                    IF id = TargetOf(net.pc)
                    THEN [ResponseChannels(net, id) EXCEPT
                             ![SingleTarget[net.pc]] = << >>]
                    ELSE ResponseChannels(net, id)
          /\ (net.pc = "choose_victim_card" /\ ~panicked') =>
                alive'[state.victim].hand.kind = "Last"

\* C36: the game task sends ActionChoices only to the current player,
\* VictimChoices only to the seat that is losing a card, the three and the
\* four cards of an Exchange only to its actor, the prompts of a window
\* only to seats other than the actor, and no prompt to a seat that is not
\* alive; for a prompt with one target it takes exactly one response, off
\* the matching channel of that seat, and touches no other channel.
PromptTargets == [][PromptTargetsStep]_vars

\* an actor holding one card has chosen one from three, after a seat had
\* chosen the card it lost
PromptTargetsWitness ==
    /\ net.pc = "Loop"
    /\ phase = "Wait"
    /\ played.kind = "Exchange"
    /\ ~played.challenged
    /\ played.actor \in DOMAIN alive
    /\ alive[played.actor].hand.kind = "Last"
    /\ \A id \in player_channels : net.choose_one[id] = << >>

\* how many of the first i messages sent to a client are of one kind
SentBy(out, i, message) == Cardinality({k \in 1..i : out[k] = message})

\* the client of the seat that is asked for its action has been sent the
\* Info of the round: none is left in the channel of its session
InfoBeforeActionChoices ==
    \A c \in Clients :
        (conn.stage[c] = "Prompt" /\ conn.prompt[c] = "ActionChoices")
            => conn.info[c] = << >>

\* the Info of a round comes after the Outcome of every round before it
OutcomeBeforeNextInfo ==
    \A c \in Clients :
        \A i \in DOMAIN conn.out[c] :
            conn.out[c][i] = "Info" =>
                SentBy(conn.out[c], i, "Info")
                    <= SentBy(conn.out[c], i, "Outcome") + 1

\* C37: in every round the client of the current actor is sent the Info of
\* the round before the ActionChoices of the round, and a client is sent
\* the Outcome of a round before the Info of the next round, however the
\* select of the session picks among its channels.
RoundOrdering == InfoBeforeActionChoices /\ OutcomeBeforeNextInfo

\* the Outcomes a session has sent its client and those it has yet to take
\* from its broadcast receiver
OutcomesOf(c) ==
    SentBy(conn.out[c], Len(conn.out[c]), "Outcome")
        + SentBy(conn.broadcast[c], Len(conn.broadcast[c]), "Outcome")

\* C38: every Outcome the game task broadcasts is sent once, as an Outcome,
\* to the client of every session of the game that is still connected,
\* whether the session was idle or in a prompt when it was broadcast and
\* however many broadcasts its receiver holds: none is dropped and none is
\* sent twice.
OutcomeDelivery ==
    \A c \in Range(conn.players) :
        ~Gone(conn, c) => OutcomesOf(c) = conn.rounds /\ conn.lost[c] = 0

\* the channels of seat id that were empty and hold a message after the step
Filled(id) ==
    {channel \in DOMAIN ResponseChannels(net, id) :
        /\ ResponseChannels(net, id)[channel] = << >>
        /\ ResponseChannels(net', id)[channel] # << >>}

\* the channels a response to a prompt of this kind is forwarded on
ChannelsFor(kind) ==
    CASE kind = "Actions" -> {"action"}
      [] kind = "Victim" -> {"victim_card"}
      [] kind = "ChooseOne" -> {"choose_one"}
      [] kind = "ChooseTwo" -> {"choose_two"}
      [] kind = "Challenge" -> {"challenge", "pass"}
      [] kind = "Block" -> {"block", "pass"}
      [] kind = "Reactions" -> {"challenge", "block", "pass"}

OnePromptOneResponseStep ==
    \A id \in player_channels :
        /\ \A channel \in DOMAIN ResponseChannels(net, id) :
              ResponseChannels(net, id)[channel] # << >> =>
                  ResponseChannels(net', id)[channel]
                      \in {<< >>, ResponseChannels(net, id)[channel]}
        /\ IF net.prompt[id].kind # "None" /\ net'.prompt[id].kind = "None"
           THEN /\ Cardinality(Filled(id)) = 1
                /\ Filled(id) \subseteq ChannelsFor(net.prompt[id].kind)
                /\ \A channel \in Filled(id) :
                      /\ Len(ResponseChannels(net', id)[channel]) = 1
                      /\ ResponseChannels(net', id)[channel][1].w = net.prompt[id].w
           ELSE Filled(id) = {}

\* C39: for each prompt a session forwards one message to the game task,
\* on one channel: the response of the client that the handler of the
\* prompt accepts, or, at the deadline of a timed prompt, one Pass; never
\* both and never a second one, and a channel never holds more than one
\* message.
OnePromptOneResponse == [][OnePromptOneResponseStep]_vars

\* in one window a seat has passed and another has challenged or blocked,
\* and both sessions are done with their prompts
OnePromptOneResponseWitness ==
    \E id, other \in player_channels :
        /\ id # other
        /\ net.prompt[id].kind = "None" /\ net.prompt[other].kind = "None"
        /\ net.pass[id] # << >> /\ net.pass[id][1].w = net.window
        /\ net.challenge[id] = << >> /\ net.block[id] = << >>
        /\ \/ net.challenge[other] # << >> /\ net.challenge[other][1].w = net.window
           \/ net.block[other] # << >> /\ net.block[other][1].w = net.window
        /\ net.pass[other] = << >>

\* C40: after any registrations and disconnects, a lobby that has not
\* started holds at most one pending seat, and a lobby that has started
\* holds none and its game has exactly two seats, PlayerId One and Two;
\* the seats the sessions are given are these.
LobbySize ==
    \A game_id \in AllLobbies :
        IF LobbyOf(game_id).handle = "None"
        THEN /\ Len(LobbyOf(game_id).channel_senders) <= 1
             /\ LobbyOf(game_id).seats = {}
        ELSE /\ LobbyOf(game_id).channel_senders = << >>
             /\ LobbyOf(game_id).seats = {1, 2}
             /\ \A c \in Sockets :
                   conn.game_id[c] = game_id /\ conn.id[c] # 0
                       => conn.id[c] \in {1, 2}

\* a game has started with its two seats given out, a lobby has been
\* cancelled, and a later registration waits alone in a new lobby
LobbySizeWitness ==
    \E started \in AllLobbies, waiting \in DOMAIN conn.lobbies :
        /\ LobbyOf(started).seats = {1, 2}
        /\ {conn.id[c] : c \in {k \in Sockets : conn.game_id[k] = started}} = {1, 2}
        /\ conn.lobbies[waiting].handle = "None"
        /\ Len(conn.lobbies[waiting].channel_senders) = 1
        /\ DOMAIN conn.finished_games # {}
====
